---- MODULE Spec2Model ----
(***************************************************************************)
(* Model of FlashbotsBundleProvider (src/src/index.ts, the ethers v6       *)
(* version of the class, lines 294-1430): the bundle signer, the relay     *)
(* client, the conflict diagnosis, the base fee projections and the        *)
(* block-driven inclusion watcher.                                         *)
(***************************************************************************)
EXTENDS Integers, Sequences, FiniteSets, TLC

\* ------------------------------------------------------------------------
\* Bounds of the model
\* ------------------------------------------------------------------------
MaxBlock == 2        \* highest block number the chain reaches
MaxNonce == 2        \* highest nonce of a submitted transaction
MaxBundleLen == 1    \* longest watched bundle
MaxItems == 2        \* longest list of items given to signBundle
MaxAttempts == 2     \* most sends the transport makes of one request
MaxBlockTxs == 2     \* most transactions the blocks index lists for a block
MaxTargetLen == 1    \* longest bundle under diagnosis
MaxBaseFee == 16     \* highest base fee a projection starts from
MaxGasLimit == 4     \* highest gas limit of a projected block
MaxAhead == 2        \* most blocks a projection looks ahead

\* ------------------------------------------------------------------------
\* Program constants
\* ------------------------------------------------------------------------
TIMEOUT_MS == 300000
BASE_FEE_MAX_CHANGE_DENOMINATOR == 8

\* on-chain transaction counts go one above the highest nonce
MaxCount == MaxNonce + 1

Accounts == {"a1", "a2"}
Waits == {"w1", "w2"}
Blocks == 1..MaxBlock

\* FlashbotsBundleResolution, plus the promise states around it
BundleIncluded == "BundleIncluded"
BlockPassedWithoutInclusion == "BlockPassedWithoutInclusion"
AccountNonceTooHigh == "AccountNonceTooHigh"
FlashbotsBundleResolution == {BundleIncluded, BlockPassedWithoutInclusion, AccountNonceTooHigh}
Pending == "pending"
TimedOut == "Timed out"

\* ------------------------------------------------------------------------
\* Raw signed transactions: encoding, decoding, hashing
\* ------------------------------------------------------------------------
\* a raw signed transaction is the serialisation of (from, nonce, data)
Serialize(from, nonce, data) == <<"0x02", from, nonce, data>>

\* Transaction.from(raw): the decoded sender and nonce
TransactionFrom(raw) == [from |-> raw[2], nonce |-> raw[3]]

\* keccak256(raw): injective on the raw strings of the model
keccak256(raw) == <<"keccak", raw>>

\* sendRawBundle's map of the raw strings to TransactionAccountNonce records
BundleTransactionsOf(signedBundledTransactions) ==
  [i \in 1..Len(signedBundledTransactions) |->
     LET signedTransaction == signedBundledTransactions[i]
         transactionDetails == TransactionFrom(signedTransaction)
     IN [signedTransaction |-> signedTransaction,
         hash |-> keccak256(signedTransaction),
         account |-> IF transactionDetails.from = "null" THEN "0x0" ELSE transactionDetails.from,
         nonce |-> transactionDetails.nonce]]

RawTxs == {Serialize(a, n, "d") : a \in Accounts, n \in 0..MaxNonce}

RECURSIVE SeqsUpTo(_, _)
SeqsUpTo(S, n) ==
  IF n = 0 THEN {<<>>}
  ELSE LET shorter == SeqsUpTo(S, n - 1)
       IN shorter \cup {Append(s, x) : s \in {t \in shorter : Len(t) = n - 1}, x \in S}

HashesOf(txs) == {txs[i].hash : i \in 1..Len(txs)}

\* ------------------------------------------------------------------------
\* State
\* ------------------------------------------------------------------------
VARIABLES
  head,          \* chain: number of the latest mined block
  txCount,       \* chain: transaction count of each account at 'latest'
  blocks,        \* chain: blocks[n] = transaction hashes of mined block n
  emitted,       \* provider: number of the last 'block' event emitted
  listeners,     \* provider: the waits whose handler is registered on 'block'
  removeCalls,   \* provider: removeListener calls received, per handler
  waitArgs,      \* per wait: the arguments of waitForBundleInclusion
  started,       \* per wait: waitForBundleInclusion has been called
  done,          \* per wait: the closure's done flag
  timer,         \* per wait: the closure's timer variable ("null" or "handle")
  timeoutState,  \* per wait: the runtime's timer ("none", "scheduled", "cleared", "fired")
  outcome,       \* per wait: state of the returned promise
  inv,           \* per wait and block event: the handler invocation
  bundledTransactions,  \* signBundle: the items given
  signState,            \* signBundle: "idle", "running", "returned" or "threw";
                        \* "direct" when sendRawBundle is called by itself
  position,             \* signBundle: index of the item the loop is at
  nonces,               \* signBundle: the per-call map of next nonces
  signedTransactions,   \* signBundle: the raw transactions collected so far
  countFetches,         \* provider: getTransactionCount calls of signBundle, per account
  sendState,            \* sendRawBundle: "idle", "awaitRelay", "error", "sent" or "threw"
  relayLog,             \* relay: the requests received, in order
  bundleResponse,       \* sendRawBundle: the FlashbotsTransactionResponse returned
  nextId,               \* client: the #nextId field
  retryFunc,            \* client: retryFunc of the #connect request
  call,                 \* per relay call: the operation, its position and its outcome
  wire,                 \* relay: the HTTP requests received, in order
  prepared,             \* client: the envelopes prepareRelayRequest has built, in order
  diag,                 \* getConflictingBundleWithoutGasPricing: the state of one call
  second,               \* signBundle: the state of a second call beside the first
  fee,                  \* caller: a base fee and the projections made from it
  asked,                \* per wait: the accounts whose transaction count the
                        \* handler has asked the chain for
  txWait                \* waitForTxInclusion: the state of one call

signVars == <<bundledTransactions, signState, position, nonces, signedTransactions,
              countFetches, sendState, relayLog, bundleResponse>>

clientVars == <<retryFunc, call, wire, prepared>>

watchVars == <<head, blocks, emitted, listeners, removeCalls, waitArgs,
               started, done, timer, timeoutState, outcome, inv>>

asideVars == <<second, fee, asked, txWait>>

vars == <<txCount, watchVars, signVars, nextId, clientVars, diag, asideVars>>

chainVars == <<head, txCount, blocks>>
waitVars == <<started, done, timer, timeoutState, outcome>>

\* positions of a handler invocation: not started, awaiting the transaction
\* counts, awaiting the block, returned, threw
InvStates == {"none", "awaitCounts", "awaitBlock", "returned", "threw"}

\* ------------------------------------------------------------------------
\* waitForBundleInclusion: the pure parts
\* ------------------------------------------------------------------------
\* the reduce of lines 910-920; an absent key is 0, which `!acc[account]`
\* does not tell from a stored value
RECURSIVE MinimumNonceReduce(_, _, _)
MinimumNonceReduce(transactionAccountNonces, i, acc) ==
  IF i > Len(transactionAccountNonces) THEN acc
  ELSE LET accountNonce == transactionAccountNonces[i]
           next == IF accountNonce.nonce > 0
                      /\ (acc[accountNonce.account] = 0 \/ accountNonce.nonce < acc[accountNonce.account])
                   THEN [acc EXCEPT ![accountNonce.account] = accountNonce.nonce]
                   ELSE acc
       IN MinimumNonceReduce(transactionAccountNonces, i + 1, next)

\* variant: every positive nonce overwrites the one kept for its account
minimumNonceByAccountLast(transactionAccountNonces) ==
  [a \in Accounts |->
     LET hits == {i \in 1..Len(transactionAccountNonces) :
                    /\ transactionAccountNonces[i].account = a
                    /\ transactionAccountNonces[i].nonce > 0}
     IN IF hits = {} THEN 0
        ELSE transactionAccountNonces[CHOOSE i \in hits : \A h \in hits : h <= i].nonce]

minimumNonceByAccount(transactionAccountNonces) ==
  MinimumNonceReduce(transactionAccountNonces, 1, [a \in Accounts |-> 0])

\* Object.entries(minimumNonceByAccount): the accounts that are queried
QueriedAccounts(transactionAccountNonces) ==
  {a \in Accounts : minimumNonceByAccount(transactionAccountNonces)[a] # 0}

\* noncesValid.every(Boolean) over the answers of the queries
allNoncesValid(transactionAccountNonces, transactionCount) ==
  \A a \in QueriedAccounts(transactionAccountNonces) :
    minimumNonceByAccount(transactionAccountNonces)[a] >= transactionCount[a]

\* variant: `some` in place of `every`
bundleIncludedSome(transactionAccountNonces, blockTransactions) ==
  \E i \in 1..Len(transactionAccountNonces) :
    transactionAccountNonces[i].hash \in blockTransactions

\* transactionAccountNonces.every(tx => blockTransactionsHash[tx.hash])
bundleIncluded(transactionAccountNonces, blockTransactions) ==
  \A i \in 1..Len(transactionAccountNonces) :
    transactionAccountNonces[i].hash \in blockTransactions

\* variant: a later resolve or reject overwrites the outcome
SettleAgain(current, value) == value

\* resolve/reject of the promise: only the first call settles it
Settle(current, value) == IF current = Pending THEN value ELSE current

\* variant: removeAllListeners('block')
RemoveAllListeners(ls, w) == {}

\* genericProvider.removeListener('block', handler)
RemoveListener(ls, w) == ls \ {w}

\* ------------------------------------------------------------------------
\* The chain and the provider's block events
\* ------------------------------------------------------------------------
\* a transaction of the block that belongs to no bundle of the model
OtherHash == keccak256(Serialize("other", 0, "d"))

\* The chain as the waits observe it.  getBlock is only ever asked for a
\* target block and getTransactionCount for an account of a bundle, so the
\* other blocks and accounts are kept fixed.
TargetBlocks == {waitArgs[w].targetBlockNumber : w \in Waits}

WatchedHashes == UNION {HashesOf(waitArgs[w].transactionAccountNonces) : w \in Waits}

AccountsOf(txs) == {txs[i].account : i \in 1..Len(txs)}

WatchedAccounts == UNION {AccountsOf(waitArgs[w].transactionAccountNonces) : w \in Waits}

BlockChoices(n) ==
  IF n \in TargetBlocks
  THEN {S \cup {OtherHash} : S \in SUBSET WatchedHashes}
  ELSE {{OtherHash}}

MineBlock ==
  /\ head < MaxBlock
  /\ head' = head + 1
  /\ \E txs \in BlockChoices(head + 1) : blocks' = Append(blocks, txs)
  /\ \E nc \in [Accounts -> 0..MaxCount] :
       /\ \A a \in Accounts :
            nc[a] \in IF a \in WatchedAccounts THEN {txCount[a], txCount[a] + 1} ELSE {txCount[a]}
       /\ txCount' = nc
  /\ UNCHANGED <<emitted, listeners, removeCalls, waitArgs, waitVars, inv, signVars, nextId, clientVars, asideVars, diag>>

\* variant: the event of the target block still goes to the nonce check
StartHandlerTargetIsBelow(w, blockNumber) ==
  IF blockNumber <= waitArgs[w].targetBlockNumber THEN "awaitCounts" ELSE "awaitBlock"

\* the synchronous start of handler(blockNumber), up to its first await
StartHandler(w, blockNumber) ==
  IF blockNumber < waitArgs[w].targetBlockNumber THEN "awaitCounts" ELSE "awaitBlock"

\* lines 924-927: the getTransactionCount calls the map makes before the
\* handler's first await, one per entry of minimumNonceByAccount
CountQueries(w, blockNumber) ==
  IF blockNumber < waitArgs[w].targetBlockNumber
  THEN QueriedAccounts(waitArgs[w].transactionAccountNonces)
  ELSE {}

\* the provider emits the next 'block' event to every registered handler
EmitBlock ==
  /\ emitted < head
  /\ emitted' = emitted + 1
  /\ inv' = [w \in Waits |->
               IF w \in listeners
               THEN [inv[w] EXCEPT ![emitted + 1] = StartHandler(w, emitted + 1)]
               ELSE inv[w]]
  /\ asked' = [w \in Waits |->
                 IF w \in listeners THEN asked[w] \cup CountQueries(w, emitted + 1) ELSE asked[w]]
  /\ UNCHANGED <<chainVars, listeners, removeCalls, waitArgs, waitVars, signVars, nextId, clientVars, second, fee, txWait, diag>>

\* ------------------------------------------------------------------------
\* waitForBundleInclusion
\* ------------------------------------------------------------------------
\* variant: the timer is never armed
StartWaitNoTimer(w) ==
  /\ ~started[w]
  /\ started' = [started EXCEPT ![w] = TRUE]
  /\ listeners' = listeners \cup {w}
  /\ UNCHANGED <<timer, timeoutState>>
  /\ UNCHANGED <<chainVars, emitted, removeCalls, waitArgs, done, outcome, inv, signVars, nextId, clientVars, asideVars, diag>>

\* the promise executor, lines 906-971: register the handler, arm the timer
StartWait(w) ==
  /\ ~started[w]
  /\ started' = [started EXCEPT ![w] = TRUE]
  /\ listeners' = listeners \cup {w}
  /\ IF TIMEOUT_MS > 0
     THEN /\ timer' = [timer EXCEPT ![w] = "handle"]
          /\ timeoutState' = [timeoutState EXCEPT ![w] = "scheduled"]
     ELSE UNCHANGED <<timer, timeoutState>>
  /\ UNCHANGED <<chainVars, emitted, removeCalls, waitArgs, done, outcome, inv, signVars, nextId, clientVars, asideVars, diag>>

\* variant: a failing invocation ends the watch: timer cleared, handler
\* removed
HandlerThrowsEndsWatch(w, b) ==
  /\ \/ /\ inv[w][b] = "awaitCounts"
        /\ QueriedAccounts(waitArgs[w].transactionAccountNonces) # {}
     \/ inv[w][b] = "awaitBlock"
  /\ inv' = [inv EXCEPT ![w][b] = "threw"]
  /\ timeoutState' = [timeoutState EXCEPT ![w] = IF @ = "scheduled" THEN "cleared" ELSE @]
  /\ done' = [done EXCEPT ![w] = TRUE]
  /\ listeners' = RemoveListener(listeners, w)
  /\ removeCalls' = [removeCalls EXCEPT ![w] = @ + 1]
  /\ UNCHANGED <<chainVars, emitted, waitArgs, started, timer, outcome, signVars, nextId, clientVars, asideVars, diag>>

\* a chain query of the handler rejects, or getBlock answers null: the
\* handler throws and does nothing more
HandlerThrows(w, b) ==
  /\ \/ /\ inv[w][b] = "awaitCounts"
        /\ QueriedAccounts(waitArgs[w].transactionAccountNonces) # {}
     \/ inv[w][b] = "awaitBlock"
  /\ inv' = [inv EXCEPT ![w][b] = "threw"]
  /\ UNCHANGED <<chainVars, emitted, listeners, removeCalls, waitArgs, waitVars, signVars, nextId, clientVars, asideVars, diag>>

\* variant: the tail without the `if (done) return` of lines 949-951
HandlerTailNoDoneCheck(w) ==
  /\ timeoutState' = [timeoutState EXCEPT ![w] =
        IF timer[w] = "handle" /\ timeoutState[w] = "scheduled" THEN "cleared" ELSE @]
  /\ done' = [done EXCEPT ![w] = TRUE]
  /\ listeners' = RemoveListener(listeners, w)
  /\ removeCalls' = [removeCalls EXCEPT ![w] = @ + 1]
  /\ UNCHANGED timer

\* lines 946-953: the tail of the handler after a resolve
HandlerTail(w) ==
  /\ timeoutState' = [timeoutState EXCEPT ![w] =
        IF timer[w] = "handle" /\ timeoutState[w] = "scheduled" THEN "cleared" ELSE @]
  /\ IF done[w]
     THEN UNCHANGED <<done, listeners, removeCalls>>
     ELSE /\ done' = [done EXCEPT ![w] = TRUE]
          /\ listeners' = RemoveListener(listeners, w)
          /\ removeCalls' = [removeCalls EXCEPT ![w] = @ + 1]
  /\ UNCHANGED timer

\* variant: the handler returns right after resolve(AccountNonceTooHigh)
HandlerNoncesReturnsOnResolve(w, b) ==
  /\ inv[w][b] = "awaitCounts"
  /\ inv' = [inv EXCEPT ![w][b] = "returned"]
  /\ IF allNoncesValid(waitArgs[w].transactionAccountNonces, txCount)
     THEN UNCHANGED outcome
     ELSE outcome' = [outcome EXCEPT ![w] = Settle(@, AccountNonceTooHigh)]
  /\ UNCHANGED <<started, done, timer, timeoutState, listeners, removeCalls>>
  /\ UNCHANGED <<chainVars, emitted, waitArgs, signVars, nextId, clientVars, asideVars, diag>>

\* lines 923-933 after Promise.all: the transaction counts are answered.
\* The counts of the chain only grow, so answers read one by one at earlier
\* moments decide as one reading of all of them at one moment does.
HandlerNonces(w, b) ==
  /\ inv[w][b] = "awaitCounts"
  /\ inv' = [inv EXCEPT ![w][b] = "returned"]
  /\ IF allNoncesValid(waitArgs[w].transactionAccountNonces, txCount)
     THEN UNCHANGED <<waitVars, listeners, removeCalls>>
     ELSE /\ outcome' = [outcome EXCEPT ![w] = Settle(@, AccountNonceTooHigh)]
          /\ HandlerTail(w)
          /\ UNCHANGED started
  /\ UNCHANGED <<chainVars, emitted, waitArgs, signVars, nextId, clientVars, asideVars, diag>>

\* variant: the resolve is left out while the invocation of an earlier event
\* has not returned
HandlerBlockAfterEarlier(w, b) ==
  /\ inv[w][b] = "awaitBlock"
  /\ waitArgs[w].targetBlockNumber <= head
  /\ inv' = [inv EXCEPT ![w][b] = "returned"]
  /\ IF \E e \in Blocks : e < b /\ inv[w][e] \in {"awaitCounts", "awaitBlock"}
     THEN UNCHANGED <<outcome, done, timer, timeoutState, listeners, removeCalls>>
     ELSE /\ outcome' = [outcome EXCEPT ![w] =
                Settle(@, IF bundleIncluded(waitArgs[w].transactionAccountNonces,
                                            blocks[waitArgs[w].targetBlockNumber])
                          THEN BundleIncluded ELSE BlockPassedWithoutInclusion)]
          /\ HandlerTail(w)
  /\ UNCHANGED <<chainVars, emitted, waitArgs, started, signVars, nextId, clientVars, asideVars, diag>>

\* variant: the block of the event is fetched, not the target block
HandlerBlockOfEvent(w, b) ==
  /\ inv[w][b] = "awaitBlock"
  /\ waitArgs[w].targetBlockNumber <= head
  /\ inv' = [inv EXCEPT ![w][b] = "returned"]
  /\ outcome' = [outcome EXCEPT ![w] =
        Settle(@, IF bundleIncluded(waitArgs[w].transactionAccountNonces, blocks[b])
                  THEN BundleIncluded ELSE BlockPassedWithoutInclusion)]
  /\ HandlerTail(w)
  /\ UNCHANGED <<chainVars, emitted, waitArgs, started, signVars, nextId, clientVars, asideVars, diag>>

\* lines 935-944 after getBlock(targetBlockNumber) answered a block
HandlerBlock(w, b) ==
  /\ inv[w][b] = "awaitBlock"
  /\ waitArgs[w].targetBlockNumber <= head
  /\ inv' = [inv EXCEPT ![w][b] = "returned"]
  /\ outcome' = [outcome EXCEPT ![w] =
        Settle(@, IF bundleIncluded(waitArgs[w].transactionAccountNonces, blocks[waitArgs[w].targetBlockNumber])
                  THEN BundleIncluded ELSE BlockPassedWithoutInclusion)]
  /\ HandlerTail(w)
  /\ UNCHANGED <<chainVars, emitted, waitArgs, started, signVars, nextId, clientVars, asideVars, diag>>

\* variant: the timer callback rejects but leaves the handler registered
TimerFiresKeepsListener(w) ==
  /\ timeoutState[w] = "scheduled"
  /\ timeoutState' = [timeoutState EXCEPT ![w] = "fired"]
  /\ IF done[w]
     THEN UNCHANGED <<timer, done, outcome>>
     ELSE /\ timer' = [timer EXCEPT ![w] = "null"]
          /\ done' = [done EXCEPT ![w] = TRUE]
          /\ outcome' = [outcome EXCEPT ![w] = Settle(@, TimedOut)]
  /\ UNCHANGED <<listeners, removeCalls>>
  /\ UNCHANGED <<chainVars, emitted, waitArgs, started, inv, signVars, nextId, clientVars, asideVars, diag>>

\* lines 958-967: the timer callback
TimerFires(w) ==
  /\ timeoutState[w] = "scheduled"
  /\ timeoutState' = [timeoutState EXCEPT ![w] = "fired"]
  /\ IF done[w]
     THEN UNCHANGED <<timer, done, listeners, removeCalls, outcome>>
     ELSE /\ timer' = [timer EXCEPT ![w] = "null"]
          /\ done' = [done EXCEPT ![w] = TRUE]
          /\ listeners' = RemoveListener(listeners, w)
          /\ removeCalls' = [removeCalls EXCEPT ![w] = @ + 1]
          /\ outcome' = [outcome EXCEPT ![w] = Settle(@, TimedOut)]
  /\ UNCHANGED <<chainVars, emitted, waitArgs, started, inv, signVars, nextId, clientVars, asideVars, diag>>

\* the arguments sendRawBundle's wait accessor passes (line 705)
WaitArgsOf(signedBundledTransactions, targetBlockNumber) ==
  [transactionAccountNonces |-> BundleTransactionsOf(signedBundledTransactions),
   targetBlockNumber |-> targetBlockNumber]

\* ------------------------------------------------------------------------
\* Specification of the watcher
\* ------------------------------------------------------------------------
\* no signBundle or sendRawBundle call is under way
SignerIdle ==
  /\ bundledTransactions = <<>>
  /\ signState = "idle"
  /\ position = 1
  /\ nonces = <<>>
  /\ signedTransactions = <<>>
  /\ countFetches = [a \in Accounts |-> 0]
  /\ sendState = "idle"
  /\ relayLog = <<>>
  /\ bundleResponse = [error |-> "none"]
  /\ nextId = 1

\* the invocations of relay operations that may be in flight together
Calls == {"c1", "c2"}

\* a relay operation that has not been invoked
IdleCall == [pc |-> "idle"]

\* a client built by create (line 581), no relay operation invoked
ClientIdle ==
  /\ retryFunc = "throttleCallback"
  /\ call = [c \in Calls |-> IdleCall]
  /\ wire = <<>>
  /\ prepared = <<>>

\* no diagnosis is under way
DiagIdle == diag = [pc |-> "idle"]

\* no second signBundle call and no fee projection is under way
AsideIdle ==
  /\ second = [signState |-> "idle"]
  /\ fee = [pc |-> "idle"]
  /\ asked = [w \in Waits |-> {}]
  /\ txWait = [started |-> FALSE]

ChainInit ==
  /\ head = 0
  /\ txCount \in [Accounts -> 0..1]
  /\ \A a \in Accounts \ WatchedAccounts : txCount[a] = 0
  /\ blocks = <<>>

WatcherInit ==
  /\ emitted = 0
  /\ listeners = {}
  /\ removeCalls = [w \in Waits |-> 0]
  /\ started = [w \in Waits |-> FALSE]
  /\ done = [w \in Waits |-> FALSE]
  /\ timer = [w \in Waits |-> "null"]
  /\ timeoutState = [w \in Waits |-> "none"]
  /\ outcome = [w \in Waits |-> Pending]
  /\ inv = [w \in Waits |-> [b \in Blocks |-> "none"]]

\* the bundles of the watcher's runs; the two accounts are interchangeable,
\* so a bundle starts with a transaction of the first
WatchedBundles ==
  {raws \in SeqsUpTo(RawTxs, MaxBundleLen) :
     IF raws = <<>> THEN TRUE ELSE TransactionFrom(raws[1]).from = "a1"}

\* one submission, any bundle and target block
WatchInit ==
  /\ \E raws \in WatchedBundles, n \in Blocks :
       waitArgs = [w \in Waits |-> WaitArgsOf(raws, n)]
  /\ ChainInit
  /\ WatcherInit
  /\ SignerIdle
  /\ ClientIdle
  /\ DiagIdle
  /\ AsideIdle

WaitNext(w) ==
  \/ StartWait(w)
  \/ TimerFires(w)
  \/ \E b \in Blocks :
       \/ HandlerThrows(w, b)
       \/ HandlerNonces(w, b)
       \/ HandlerBlock(w, b)

Next ==
  \/ MineBlock
  \/ EmitBlock
  \/ WaitNext("w1")

MultiNext ==
  \/ MineBlock
  \/ EmitBlock
  \/ \E w \in Waits : WaitNext(w)

\* two waits, on one submission or on two, of at most one transaction each
MultiRawTxs == {Serialize("a1", 1, "d")}

MultiInit ==
  /\ \E r1, r2 \in SeqsUpTo(MultiRawTxs, 1), n1, n2 \in Blocks :
       waitArgs = [w \in Waits |-> IF w = "w1" THEN WaitArgsOf(r1, n1) ELSE WaitArgsOf(r2, n2)]
  /\ ChainInit
  /\ WatcherInit
  /\ SignerIdle
  /\ ClientIdle
  /\ DiagIdle
  /\ AsideIdle

MultiSpec == MultiInit /\ [][MultiNext]_vars

\* one submission of two transactions, of one account or of two, targeting
\* the last block, so that events below the target reach the nonce check
NonceBundles ==
  {<<Serialize("a1", n1, "d"), Serialize(a, n2, "d")>> :
     n1 \in 0..MaxNonce, n2 \in 0..MaxNonce, a \in Accounts}

NonceInit ==
  /\ \E raws \in NonceBundles :
       waitArgs = [w \in Waits |-> WaitArgsOf(raws, MaxBlock)]
  /\ ChainInit
  /\ WatcherInit
  /\ SignerIdle
  /\ ClientIdle
  /\ DiagIdle
  /\ AsideIdle

NonceSpec == NonceInit /\ [][Next]_vars

Spec == WatchInit /\ [][Next]_vars

\* the timers of a live process fire; nothing else is promised
FairSpec == WatchInit /\ [][Next]_vars /\ \A w \in Waits : WF_vars(TimerFires(w))

TypeOK ==
  /\ head \in 0..MaxBlock
  /\ emitted \in 0..head
  /\ listeners \subseteq Waits
  /\ \A w \in Waits : outcome[w] \in FlashbotsBundleResolution \cup {Pending, TimedOut}

\* ------------------------------------------------------------------------
\* signBundle and sendRawBundle
\* ------------------------------------------------------------------------
\* transaction.nonce of an item: a number, undefined, null, or a string
NonceFields ==
  {[t |-> "number", v |-> n] : n \in 0..MaxNonce}
    \cup {[t |-> "undefined"], [t |-> "null"], [t |-> "string"]}

\* a raw string Transaction.from cannot decode
Garbage == <<"0x", "garbage", 0, 0>>

\* Transaction.from throws on a string that is no serialised transaction
Decodable(raw) == raw[1] = "0x02"

\* the items that may stand at index i of the list; the payload of an item
\* is its index, so that every output can be traced to its input
ItemsAt(i) ==
  {[kind |-> "signed", signedTransaction |-> Serialize(a, n, i)] :
     a \in Accounts, n \in 0..MaxNonce}
    \cup {[kind |-> "signed", signedTransaction |-> Serialize("null", 0, i)]}
    \cup {[kind |-> "signed", signedTransaction |-> Garbage]}
    \cup {[kind |-> "unsigned", signer |-> a, nonce |-> f, data |-> i] :
            a \in Accounts, f \in NonceFields}

RECURSIVE ItemLists(_)
ItemLists(n) ==
  IF n = 0 THEN {<<>>}
  ELSE LET shorter == ItemLists(n - 1)
       IN shorter \cup {Append(l, x) : l \in {t \in shorter : Len(t) = n - 1}, x \in ItemsAt(n)}

\* variant: the tracked nonce is not advanced
SameNonce(nonce) == nonce

\* the `nonce + 1` of lines 879 and 890
NextNonce(nonce) == nonce + 1

\* nonces[address] = value
SetNonce(map, address, value) ==
  [x \in DOMAIN map \cup {address} |-> IF x = address THEN value ELSE map[x]]

\* variant: unshift in place of push
Unshift(list, x) == <<x>> \o list

\* signedTransactions.push(x)
Push(list, x) == Append(list, x)

\* signer.signTransaction(transaction): the nonce the signed transaction
\* carries; ethers' Wallet serialises a null nonce as 0
SignedNonce(nonceField) == IF nonceField.t = "number" THEN nonceField.v ELSE 0

\* variant: an item that cannot be decoded is skipped
SignPresignedSkips(tx) ==
  IF ~Decodable(tx.signedTransaction) \/ TransactionFrom(tx.signedTransaction).from = "null"
  THEN /\ position' = position + 1
       /\ UNCHANGED <<signState, nonces, signedTransactions, countFetches>>
  ELSE LET transactionDetails == TransactionFrom(tx.signedTransaction)
       IN /\ nonces' = SetNonce(nonces, transactionDetails.from, NextNonce(transactionDetails.nonce))
          /\ signedTransactions' = Push(signedTransactions, tx.signedTransaction)
          /\ position' = position + 1
          /\ UNCHANGED <<signState, countFetches>>

\* lines 874-882: a pre-signed item
SignPresigned(tx) ==
  IF ~Decodable(tx.signedTransaction) \/ TransactionFrom(tx.signedTransaction).from = "null"
  THEN /\ signState' = "threw"
       /\ UNCHANGED <<position, nonces, signedTransactions, countFetches>>
  ELSE LET transactionDetails == TransactionFrom(tx.signedTransaction)
       IN /\ nonces' = SetNonce(nonces, transactionDetails.from, NextNonce(transactionDetails.nonce))
          /\ signedTransactions' = Push(signedTransactions, tx.signedTransaction)
          /\ position' = position + 1
          /\ UNCHANGED <<signState, countFetches>>

\* variant: the nonce is looked up before its type is checked
SignUnsignedLateCheck(tx) ==
  LET address == tx.signer
  IN /\ tx.nonce.t = "string"
     /\ signState' = "threw"
     /\ countFetches' = [countFetches EXCEPT ![address] = @ + 1]
     /\ UNCHANGED <<position, nonces, signedTransactions>>

\* lines 883-894: an item to be signed
SignUnsigned(tx) ==
  LET address == tx.signer
      fetched == tx.nonce.t # "number" /\ address \notin DOMAIN nonces
      nonce == IF tx.nonce.t = "number" THEN tx.nonce.v
               ELSE IF address \in DOMAIN nonces THEN nonces[address]
               ELSE txCount[address]
      transactionNonce == IF tx.nonce.t = "undefined"
                          THEN [t |-> "number", v |-> nonce]
                          ELSE tx.nonce
  IN IF tx.nonce.t = "string"
     THEN /\ signState' = "threw"
          /\ UNCHANGED <<position, nonces, signedTransactions, countFetches>>
     ELSE /\ countFetches' = [countFetches EXCEPT ![address] = IF fetched THEN @ + 1 ELSE @]
          /\ \/ /\ nonces' = SetNonce(nonces, address, NextNonce(nonce))
                /\ signedTransactions' =
                     Push(signedTransactions, Serialize(address, SignedNonce(transactionNonce), tx.data))
                /\ position' = position + 1
                /\ UNCHANGED signState
             \* the count lookup, the gas estimation or the signing rejects
             \/ /\ signState' = "threw"
                /\ UNCHANGED <<position, nonces, signedTransactions>>

\* one iteration of the loop of lines 873-895
SignItem ==
  /\ signState = "running"
  /\ position <= Len(bundledTransactions)
  /\ LET tx == bundledTransactions[position]
     IN IF tx.kind = "signed" THEN SignPresigned(tx) ELSE SignUnsigned(tx)
  /\ UNCHANGED <<txCount, watchVars, clientVars, asideVars, diag, bundledTransactions, sendState, relayLog,
                 bundleResponse, nextId>>

\* line 896
SignReturns ==
  /\ signState = "running"
  /\ position > Len(bundledTransactions)
  /\ signState' = "returned"
  /\ UNCHANGED <<txCount, watchVars, clientVars, asideVars, diag, bundledTransactions, position, nonces,
                 signedTransactions, countFetches, sendState, relayLog, bundleResponse, nextId>>

\* signBundle may still look up the transaction count of account a
LookupAhead(a) ==
  /\ a \notin DOMAIN nonces
  /\ \E j \in position..Len(bundledTransactions) :
       /\ bundledTransactions[j].kind = "unsigned"
       /\ bundledTransactions[j].signer = a
       /\ bundledTransactions[j].nonce.t \in {"undefined", "null"}

\* a transaction of account a is mined while signBundle is under way; the
\* counts that signBundle cannot come to read are kept fixed
CountGrows(a) ==
  /\ signState = "running"
  /\ LookupAhead(a)
  /\ txCount[a] < MaxCount
  /\ txCount' = [txCount EXCEPT ![a] = @ + 1]
  /\ UNCHANGED <<watchVars, signVars, nextId, clientVars, asideVars, diag>>

\* sendBundle, lines 730-731, into sendRawBundle, lines 673-683: the request
\* with the signed transactions is sent to the relay
SendRawBundle(targetBlockNumber) ==
  /\ signState \in {"returned", "direct"}
  /\ sendState = "idle"
  /\ sendState' = "awaitRelay"
  /\ relayLog' = Append(relayLog, [method |-> "eth_sendBundle", txs |-> signedTransactions,
                                   blockNumber |-> targetBlockNumber, id |-> nextId])
  /\ nextId' = nextId + 1
  /\ UNCHANGED <<txCount, watchVars, clientVars, asideVars, diag, bundledTransactions, signState, position,
                 nonces, signedTransactions, countFetches, bundleResponse>>

\* lines 684-691: the relay answers with an error
RelayRejects ==
  /\ sendState = "awaitRelay"
  /\ sendState' = "error"
  /\ bundleResponse' = [error |-> "relay error"]
  /\ UNCHANGED <<txCount, watchVars, clientVars, asideVars, diag, bundledTransactions, signState, position,
                 nonces, signedTransactions, countFetches, relayLog, nextId>>

\* lines 693-715: the relay accepts; the transactions are decoded (line 694
\* throws on a string that is no transaction) and the submission is returned
RelayAccepts ==
  /\ sendState = "awaitRelay"
  /\ IF \E i \in 1..Len(signedTransactions) : ~Decodable(signedTransactions[i])
     THEN /\ sendState' = "threw"
          /\ UNCHANGED bundleResponse
     ELSE /\ sendState' = "sent"
          /\ bundleResponse' = [bundleTransactions |-> BundleTransactionsOf(signedTransactions),
                                targetBlockNumber |-> relayLog[Len(relayLog)].blockNumber]
  /\ UNCHANGED <<txCount, watchVars, clientVars, asideVars, diag, bundledTransactions, signState, position,
                 nonces, signedTransactions, countFetches, relayLog, nextId>>

\* lines 706-712: the simulate accessor of the submission
SimulateAccessor ==
  /\ sendState = "sent"
  /\ Len(relayLog) < 2
  /\ relayLog' = Append(relayLog,
       [method |-> "eth_callBundle",
        txs |-> [i \in 1..Len(bundleResponse.bundleTransactions) |->
                   bundleResponse.bundleTransactions[i].signedTransaction],
        blockNumber |-> bundleResponse.targetBlockNumber,
        id |-> nextId])
  /\ nextId' = nextId + 1
  /\ UNCHANGED <<txCount, watchVars, clientVars, asideVars, diag, bundledTransactions, signState, position,
                 nonces, signedTransactions, countFetches, sendState, bundleResponse>>

\* the raw strings a caller may hand to sendRawBundle
DirectRawTxs == RawTxs \cup {Garbage, Serialize("null", 0, "d")}

\* a call of sendBundle with any list of items, or a call of sendRawBundle
\* with any list of raw strings
SignInit ==
  /\ waitArgs = [w \in Waits |-> WaitArgsOf(<<>>, 1)]
  /\ head = 0
  /\ blocks = <<>>
  /\ WatcherInit
  /\ position = 1
  /\ nonces = <<>>
  /\ \/ /\ signState = "running"
        /\ bundledTransactions \in ItemLists(MaxItems)
        /\ signedTransactions = <<>>
     \/ /\ signState = "direct"
        /\ bundledTransactions = <<>>
        /\ signedTransactions \in SeqsUpTo(DirectRawTxs, MaxItems)
  /\ txCount \in [Accounts -> 0..1]
  /\ \A a \in Accounts : LookupAhead(a) \/ txCount[a] = 0
  /\ countFetches = [a \in Accounts |-> 0]
  /\ sendState = "idle"
  /\ relayLog = <<>>
  /\ bundleResponse = [error |-> "none"]
  /\ nextId = 1
  /\ ClientIdle
  /\ DiagIdle
  /\ AsideIdle

SignNext ==
  \/ SignItem
  \/ SignReturns
  \/ \E a \in Accounts : CountGrows(a)
  \/ \E n \in Blocks : SendRawBundle(n)
  \/ RelayRejects
  \/ RelayAccepts
  \/ SimulateAccessor

SignSpec == SignInit /\ [][SignNext]_vars

\* ------------------------------------------------------------------------
\* Two signBundle calls side by side
\* ------------------------------------------------------------------------
\* variant: a call goes on with the map another call has filled
NoncesLeftOver(others) == others

\* line 871: `const nonces = {}` of a call, whatever map another call holds
NoncesAtCall(others) == <<>>

\* lines 873-895: the states one iteration of the loop may leave a call in,
\* with the call's fields in a record
SignIteration(c, tx) ==
  IF tx.kind = "signed"
  THEN IF ~Decodable(tx.signedTransaction) \/ TransactionFrom(tx.signedTransaction).from = "null"
       THEN {[c EXCEPT !.signState = "threw"]}
       ELSE LET transactionDetails == TransactionFrom(tx.signedTransaction)
            IN {[c EXCEPT !.nonces = SetNonce(@, transactionDetails.from,
                                              NextNonce(transactionDetails.nonce)),
                          !.signedTransactions = Push(@, tx.signedTransaction),
                          !.position = @ + 1]}
  ELSE LET address == tx.signer
           nonce == IF tx.nonce.t = "number" THEN tx.nonce.v
                    ELSE IF address \in DOMAIN c.nonces THEN c.nonces[address]
                    ELSE txCount[address]
           transactionNonce == IF tx.nonce.t = "undefined"
                               THEN [t |-> "number", v |-> nonce]
                               ELSE tx.nonce
       IN IF tx.nonce.t = "string"
          THEN {[c EXCEPT !.signState = "threw"]}
          ELSE {[c EXCEPT !.nonces = SetNonce(@, address, NextNonce(nonce)),
                          !.signedTransactions =
                             Push(@, Serialize(address, SignedNonce(transactionNonce), tx.data)),
                          !.position = @ + 1],
                \* the count lookup, the gas estimation or the signing rejects
                [c EXCEPT !.signState = "threw"]}

\* the items of the two calls: to be signed with the nonce left out, null or
\* given, or signed already
PairItemsAt(i) ==
  {[kind |-> "unsigned", signer |-> a, nonce |-> f, data |-> i] :
     a \in Accounts, f \in {[t |-> "undefined"], [t |-> "null"], [t |-> "number", v |-> 0]}}
    \cup {[kind |-> "signed", signedTransaction |-> Serialize("a1", 1, i)]}

RECURSIVE PairItemLists(_)
PairItemLists(n) ==
  IF n = 0 THEN {<<>>}
  ELSE LET shorter == PairItemLists(n - 1)
       IN shorter \cup {Append(l, x) : l \in {t \in shorter : Len(t) = n - 1},
                                        x \in PairItemsAt(n)}

\* line 870: a second signBundle call is made, with the items of the first
\* or with one item of its own
SecondStart ==
  /\ second.signState = "idle"
  /\ \E items \in {bundledTransactions} \cup PairItemLists(1) :
       second' = [signState |-> "running", bundledTransactions |-> items, position |-> 1,
                  nonces |-> NoncesAtCall(nonces), signedTransactions |-> <<>>]
  /\ UNCHANGED <<txCount, watchVars, signVars, nextId, clientVars, diag, fee, asked, txWait>>

\* one iteration of the second call's loop
SecondItem ==
  /\ second.signState = "running"
  /\ second.position <= Len(second.bundledTransactions)
  /\ second' \in SignIteration(second, second.bundledTransactions[second.position])
  /\ UNCHANGED <<txCount, watchVars, signVars, nextId, clientVars, diag, fee, asked, txWait>>

\* line 896 of the second call
SecondReturns ==
  /\ second.signState = "running"
  /\ second.position > Len(second.bundledTransactions)
  /\ second' = [second EXCEPT !.signState = "returned"]
  /\ UNCHANGED <<txCount, watchVars, signVars, nextId, clientVars, diag, fee, asked, txWait>>

\* a signBundle call under way on a chain at rest; a second call may be made
\* at any moment
PairInit ==
  /\ waitArgs = [w \in Waits |-> WaitArgsOf(<<>>, 1)]
  /\ head = 0
  /\ blocks = <<>>
  /\ WatcherInit
  /\ position = 1
  /\ nonces = <<>>
  /\ signState = "running"
  /\ bundledTransactions \in PairItemLists(MaxItems)
  /\ signedTransactions = <<>>
  /\ txCount \in [Accounts -> 0..1]
  /\ countFetches = [a \in Accounts |-> 0]
  /\ sendState = "idle"
  /\ relayLog = <<>>
  /\ bundleResponse = [error |-> "none"]
  /\ nextId = 1
  /\ ClientIdle
  /\ DiagIdle
  /\ AsideIdle

PairNext ==
  \/ SignItem
  \/ SignReturns
  \/ SecondStart
  \/ SecondItem
  \/ SecondReturns

PairSpec == PairInit /\ [][PairNext]_vars

\* ------------------------------------------------------------------------
\* The relay client: prepareRelayRequest, request and the relay operations
\* ------------------------------------------------------------------------
AuthSigner == "auth"

Methods ==
  {"eth_callBundle", "eth_cancelBundle", "eth_sendBundle", "eth_sendPrivateTransaction",
   "eth_cancelPrivateTransaction", "flashbots_getUserStats", "flashbots_getBundleStats",
   "flashbots_getUserStatsV2", "flashbots_getBundleStatsV2"}

\* the shapes of the argument that change the course of an operation: a
\* decodable or undecodable raw transaction, a transaction still to be
\* signed, a block number or a block tag
ArgsOf(method) ==
  CASE method = "eth_sendBundle" -> {"raw", "garbage"}
    [] method = "eth_sendPrivateTransaction" -> {"raw", "garbage", "unsigned"}
    [] method = "eth_callBundle" -> {"number", "tag"}
    [] OTHER -> {"-"}

\* the operation awaits the chain provider or a signer before it prepares
\* its request (lines 787, 1038, 1060, 1154)
AwaitsFirst(method, arg) ==
  \/ method \in {"flashbots_getUserStats", "flashbots_getUserStatsV2"}
  \/ method = "eth_callBundle" /\ arg = "tag"
  \/ method = "eth_sendPrivateTransaction" /\ arg = "unsigned"

\* variant: the id is not taken from the counter
PrepareRelayRequestFixedId(method, params) ==
  [method |-> method, params |-> params, id |-> 1, jsonrpc |-> "2.0"]

\* lines 1423-1428, the value returned; the action that uses it advances nextId
PrepareRelayRequest(method, params) ==
  [method |-> method, params |-> params, id |-> nextId, jsonrpc |-> "2.0"]

\* variant: the params are left out of the body
StringifyWithoutParams(envelope) ==
  <<"json", envelope.method, <<>>, envelope.id, envelope.jsonrpc>>

\* JSON.stringify of an envelope
Stringify(envelope) == <<"json", envelope.method, envelope.params, envelope.id, envelope.jsonrpc>>

\* id(body): the hash of the body
Id(body) == <<"id", body>>

\* signer.signMessage(message)
SignMessage(signer, message) == <<"sig", signer, message>>

\* variant: the header signs the body itself, not its hash
SignatureHeaderOfBody(address, body) == <<address, SignMessage(address, body)>>

\* line 1390: the value of the X-Flashbots-Signature header
SignatureHeader(address, body) == <<address, SignMessage(address, Id(body))>>

\* the error object of a relay response
RelayError == [message |-> "rejected", code |-> -32000]

\* the answers of the relay: HTTP status and the error member of the JSON body
Responses ==
  {[status |-> 200, error |-> e] : e \in {"malformed", "object", "null", "undefined"}}
    \cup {[status |-> st, error |-> "object"] : st \in {429, 500}}

\* variant: only `undefined` counts as no error
ResponseHasErrorUnlessUndefined(response) == response.error # "undefined"

\* response.error !== undefined && response.error !== null
ResponseHasError(response) == response.error \in {"object"}

Thrown(fault) == [kind |-> "thrown", fault |-> fault]
ErrorRecord == [kind |-> "errorRecord", error |-> [message |-> RelayError.message, code |-> RelayError.code]]
Success(accessors) == [kind |-> "success", accessors |-> accessors]

Finish(c, result) ==
  call' = [call EXCEPT ![c] = [@ EXCEPT !.pc = "done", !.outcome = result]]

\* an operation that was invoked and stands at position pc
NewCall(method, arg, pc) ==
  [pc |-> pc, method |-> method, arg |-> arg, body |-> <<>>, header |-> <<>>, sends |-> 0,
   response |-> [status |-> 0, error |-> "none"], outcome |-> [kind |-> "none"]]

\* the operation prepares its request (prepareRelayRequest, JSON.stringify)
\* and enters request() up to its first await, line 1390
EnterRequest(c, method, arg) ==
  LET envelope == PrepareRelayRequest(method, <<arg>>)
  IN /\ nextId' = nextId + 1
     /\ prepared' = Append(prepared, envelope)
     /\ call' = [call EXCEPT ![c] =
                   [NewCall(method, arg, "awaitAddress") EXCEPT !.body = Stringify(envelope)]]

\* a relay operation is invoked
Invoke(c, method, arg) ==
  /\ call[c].pc = "idle"
  /\ IF AwaitsFirst(method, arg)
     THEN /\ call' = [call EXCEPT ![c] = NewCall(method, arg, "awaitFirst")]
          /\ UNCHANGED <<nextId, prepared>>
     ELSE EnterRequest(c, method, arg)
  /\ UNCHANGED <<txCount, watchVars, signVars, retryFunc, asideVars, wire, diag>>

\* the block or the signature awaited first arrives
FirstAnswers(c) ==
  /\ call[c].pc = "awaitFirst"
  /\ EnterRequest(c, call[c].method, call[c].arg)
  /\ UNCHANGED <<txCount, watchVars, signVars, retryFunc, asideVars, wire, diag>>

\* lines 787, 1039, 1061, 1156: it does not arrive, or no block is found
FirstFails(c) ==
  /\ call[c].pc = "awaitFirst"
  /\ Finish(c, Thrown("before the request"))
  /\ UNCHANGED <<txCount, watchVars, signVars, nextId, retryFunc, asideVars, wire, prepared, diag>>

\* line 1390: authSigner.getAddress() answers
AddressAnswers(c) ==
  /\ call[c].pc = "awaitAddress"
  /\ call' = [call EXCEPT ![c].pc = "awaitSignature"]
  /\ UNCHANGED <<txCount, watchVars, signVars, nextId, retryFunc, asideVars, wire, prepared, diag>>

\* line 1390: getAddress or signMessage rejects
AuthFails(c) ==
  /\ call[c].pc \in {"awaitAddress", "awaitSignature"}
  /\ Finish(c, Thrown("auth signer"))
  /\ UNCHANGED <<txCount, watchVars, signVars, nextId, retryFunc, asideVars, wire, prepared, diag>>

\* lines 1390-1392: authSigner.signMessage answers, the header and the body
\* are set and the request is sent
SignatureAnswers(c) ==
  /\ call[c].pc = "awaitSignature"
  /\ LET header == SignatureHeader(AuthSigner, call[c].body)
     IN /\ call' = [call EXCEPT ![c] =
                      [@ EXCEPT !.pc = "awaitResponse", !.header = header, !.sends = 1]]
        /\ wire' = Append(wire, [call |-> c, body |-> call[c].body, header |-> header])
  /\ UNCHANGED <<txCount, watchVars, signVars, nextId, retryFunc, asideVars, prepared, diag>>

\* the value a relay operation returns for a response without error: lines
\* 693-715, 754-756, 805-819, 851, 1053, 1189-1200
Payload0(method, arg) ==
  IF method \in {"eth_sendBundle", "eth_sendPrivateTransaction"}
  THEN IF arg = "garbage"
       THEN Thrown("decode")
       ELSE Success({"wait", "simulate", "receipts"})
  ELSE Success({})

\* variant: the retry callback asks for another attempt
ThrottleCallbackRetries == TRUE

\* lines 552-555: throttleCallback warns and returns false
ThrottleCallback == FALSE

\* variant: the transport sends again whatever the retry callback returns
SendsAgainWhatever(c) == call[c].sends < MaxAttempts

\* FetchRequest.send on a 429 response: it sends again when no retryFunc is
\* set or the retryFunc returns true, up to its limit of attempts
SendsAgain(c) ==
  /\ IF retryFunc = "throttleCallback" THEN ThrottleCallback ELSE TRUE
  /\ call[c].sends < MaxAttempts

\* the relay answers the request of call c: lines 1392-1398 and the part of
\* the operation after `await this.request(request)`
RelayAnswers(c, response) ==
  /\ call[c].pc = "awaitResponse"
  /\ IF response.status = 429 /\ SendsAgain(c)
     THEN /\ call' = [call EXCEPT ![c] = [@ EXCEPT !.sends = @ + 1, !.response = response]]
          /\ wire' = Append(wire, [call |-> c, body |-> call[c].body, header |-> call[c].header])
     ELSE /\ UNCHANGED wire
          /\ LET result ==
                   IF response.status # 200 THEN Thrown("Request failed")
                   ELSE IF response.error = "malformed" THEN Thrown("bodyJson")
                   ELSE IF ResponseHasError(response) THEN ErrorRecord
                   ELSE Payload0(call[c].method, call[c].arg)
             IN IF call[c].method = "eth_sendPrivateTransaction" /\ result.kind = "success"
                THEN call' = [call EXCEPT ![c] =
                                [@ EXCEPT !.pc = "awaitStartBlock", !.response = response]]
                ELSE call' = [call EXCEPT ![c] =
                                [@ EXCEPT !.pc = "done", !.outcome = result, !.response = response]]
  /\ UNCHANGED <<txCount, watchVars, signVars, nextId, retryFunc, asideVars, prepared, diag>>

\* line 812: the block number asked for at line 781 arrives, or does not
StartBlockAnswers(c) ==
  /\ call[c].pc = "awaitStartBlock"
  /\ \/ Finish(c, Payload0(call[c].method, call[c].arg))
     \/ Finish(c, Thrown("getBlockNumber"))
  /\ UNCHANGED <<txCount, watchVars, signVars, nextId, retryFunc, asideVars, wire, prepared, diag>>

\* line 705: the wait accessor of the submission that call c returned is
\* called; an error record has no such member
WaitAccessor(c) ==
  /\ call[c].pc = "done"
  /\ call[c].method = "eth_sendBundle"
  /\ call[c].outcome.kind = "success"
  /\ "wait" \in call[c].outcome.accessors
  /\ StartWait("w1")

\* a client built by create (line 581) or by the constructor alone (line
\* 548), on which relay operations are invoked in any order
ClientInit ==
  /\ waitArgs = [w \in Waits |-> WaitArgsOf(<<>>, 1)]
  /\ head = 0
  /\ blocks = <<>>
  /\ txCount = [a \in Accounts |-> 0]
  /\ WatcherInit
  /\ SignerIdle
  /\ retryFunc \in {"throttleCallback", "null"}
  /\ call = [c \in Calls |-> IdleCall]
  /\ wire = <<>>
  /\ prepared = <<>>
  /\ DiagIdle
  /\ AsideIdle

ClientNext ==
  \/ \E c \in Calls, method \in Methods : \E arg \in ArgsOf(method) : Invoke(c, method, arg)
  \/ \E c \in Calls :
       \/ FirstAnswers(c)
       \/ FirstFails(c)
       \/ AddressAnswers(c)
       \/ AuthFails(c)
       \/ SignatureAnswers(c)
       \/ StartBlockAnswers(c)
       \/ WaitAccessor(c)
       \/ \E response \in Responses : RelayAnswers(c, response)

ClientSpec == ClientInit /\ [][ClientNext]_vars

\* ------------------------------------------------------------------------
\* cancelBundles beside a wait on the submission
\* ------------------------------------------------------------------------
\* the replacementUuid of the watched submission, and another one
Uuids == {"uuid-1", "uuid-2"}

\* lines 738-744: cancelBundles(replacementUuid) is called
CancelBundles(replacementUuid) == Invoke("c1", "eth_cancelBundle", replacementUuid)

\* lines 744-756: the course of the call after its request is prepared
CancelProceeds ==
  \/ AddressAnswers("c1")
  \/ AuthFails("c1")
  \/ SignatureAnswers("c1")
  \/ \E response \in Responses : RelayAnswers("c1", response)

\* a bundle of one transaction was submitted for some target block; its wait
\* accessor and cancelBundles may be called, in any order
CancelInit ==
  /\ \E n \in Blocks : waitArgs = [w \in Waits |-> WaitArgsOf(<<Serialize("a1", 1, "d")>>, n)]
  /\ ChainInit
  /\ WatcherInit
  /\ SignerIdle
  /\ retryFunc \in {"throttleCallback", "null"}
  /\ call = [c \in Calls |-> IdleCall]
  /\ wire = <<>>
  /\ prepared = <<>>
  /\ DiagIdle
  /\ AsideIdle

CancelNext ==
  \/ Next
  \/ \E replacementUuid \in Uuids : CancelBundles(replacementUuid)
  \/ CancelProceeds

CancelSpec == CancelInit /\ [][CancelNext]_vars

\* ------------------------------------------------------------------------
\* The accessors of a submission while the chain moves on
\* ------------------------------------------------------------------------
\* sendRawBundle has returned the submission of a one-transaction bundle for
\* some target block; the chain has not reached it yet
AccessorInit ==
  /\ \E n \in Blocks :
       /\ waitArgs = [w \in Waits |-> WaitArgsOf(<<Serialize("a1", 1, "d")>>, n)]
       /\ relayLog = <<[method |-> "eth_sendBundle", txs |-> <<Serialize("a1", 1, "d")>>,
                        blockNumber |-> n, id |-> 1]>>
       /\ bundleResponse = [bundleTransactions |-> BundleTransactionsOf(<<Serialize("a1", 1, "d")>>),
                            targetBlockNumber |-> n]
  /\ ChainInit
  /\ WatcherInit
  /\ bundledTransactions = <<>>
  /\ signState = "direct"
  /\ position = 1
  /\ nonces = <<>>
  /\ signedTransactions = <<Serialize("a1", 1, "d")>>
  /\ countFetches = [a \in Accounts |-> 0]
  /\ sendState = "sent"
  /\ nextId = 2
  /\ ClientIdle
  /\ DiagIdle
  /\ AsideIdle

\* the wait and the simulate accessors are called at any moment
AccessorNext ==
  \/ Next
  \/ SimulateAccessor

AccessorSpec == AccessorInit /\ [][AccessorNext]_vars

\* ------------------------------------------------------------------------
\* waitForTxInclusion
\* ------------------------------------------------------------------------
\* FlashbotsTransactionResolution
TransactionIncluded == "TransactionIncluded"
TransactionDropped == "TransactionDropped"

\* the block events a wait on a transaction may see: one more than the
\* highest maxBlockNumber, so that every wait can see its range pass
TxBlocks == 1..(MaxBlock + 1)

\* a call of waitForTxInclusion that is about to run: the closure's done
\* flag and timer, the runtime's timer, the promise, whether the handler is
\* registered on 'block', the removeListener calls made, the invocations of
\* the handler, and the number of the last block event emitted
TxWaitCall(maxBlockNumber) ==
  [started |-> FALSE,
   maxBlockNumber |-> maxBlockNumber,
   done |-> FALSE,
   timer |-> "null",
   timeoutState |-> "none",
   outcome |-> Pending,
   listening |-> FALSE,
   removeCalls |-> 0,
   inv |-> [b \in TxBlocks |-> "none"],
   emitted |-> 0]

\* genericProvider.removeListener('block', handler)
TxRemoveListener(t) == [t EXCEPT !.listening = FALSE, !.removeCalls = @ + 1]

\* variant: the tail without the `if (done) return` of lines 1005-1007
TxHandlerTailNoDoneCheck(t) ==
  TxRemoveListener(
    [t EXCEPT !.timeoutState = IF t.timer = "handle" /\ t.timeoutState = "scheduled"
                               THEN "cleared" ELSE @,
              !.done = TRUE])

\* lines 1002-1009: the tail of the handler after a resolve
TxHandlerTail(t) ==
  LET cleared == [t EXCEPT !.timeoutState =
                     IF t.timer = "handle" /\ t.timeoutState = "scheduled" THEN "cleared" ELSE @]
  IN IF cleared.done THEN cleared
     ELSE TxRemoveListener([cleared EXCEPT !.done = TRUE])

\* lines 987-1001 up to the first await, for the event of block blockNumber:
\* the receipt is asked for, or the listener is removed and the wait
\* resolved TransactionDropped, the tail following at once
TxStartHandler(t, blockNumber) ==
  IF blockNumber <= t.maxBlockNumber
  THEN [t EXCEPT !.inv[blockNumber] = "awaitReceipt"]
  ELSE LET removed == TxRemoveListener(t)
           resolved == [removed EXCEPT !.outcome = Settle(@, TransactionDropped)]
       IN [TxHandlerTail(resolved) EXCEPT !.inv[blockNumber] = "returned"]

\* the promise executor, lines 982-1029: register the handler, arm the timer
TxStartWait ==
  /\ ~txWait.started
  /\ txWait' = [txWait EXCEPT
       !.started = TRUE,
       !.listening = TRUE,
       !.timer = IF TIMEOUT_MS > 0 THEN "handle" ELSE @,
       !.timeoutState = IF TIMEOUT_MS > 0 THEN "scheduled" ELSE @]
  /\ UNCHANGED <<txCount, watchVars, signVars, nextId, clientVars, diag, second, fee, asked>>

\* the provider emits the next 'block' event; the handler runs if registered
TxEmitBlock ==
  /\ txWait.emitted + 1 \in TxBlocks
  /\ LET emittedNow == [txWait EXCEPT !.emitted = @ + 1]
     IN txWait' = IF txWait.listening
                  THEN TxStartHandler(emittedNow, txWait.emitted + 1)
                  ELSE emittedNow
  /\ UNCHANGED <<txCount, watchVars, signVars, nextId, clientVars, diag, second, fee, asked>>

\* lines 990-996: the receipt and its confirmations are answered; confirmed
\* says whether there is a receipt with at least one confirmation
TxReceiptAnswers(b, confirmed) ==
  /\ txWait.inv[b] = "awaitReceipt"
  /\ LET returned == [txWait EXCEPT !.inv[b] = "returned"]
     IN txWait' = IF confirmed
                  THEN TxHandlerTail([returned EXCEPT !.outcome = Settle(@, TransactionIncluded)])
                  ELSE returned
  /\ UNCHANGED <<txCount, watchVars, signVars, nextId, clientVars, diag, second, fee, asked>>

\* lines 990-991: a chain query of the handler rejects; the handler throws
TxHandlerThrows(b) ==
  /\ txWait.inv[b] = "awaitReceipt"
  /\ txWait' = [txWait EXCEPT !.inv[b] = "threw"]
  /\ UNCHANGED <<txCount, watchVars, signVars, nextId, clientVars, diag, second, fee, asked>>

\* lines 1016-1024: the timer callback
TxTimerFires ==
  /\ txWait.timeoutState = "scheduled"
  /\ LET fired == [txWait EXCEPT !.timeoutState = "fired"]
     IN txWait' = IF txWait.done THEN fired
                  ELSE [TxRemoveListener([fired EXCEPT !.timer = "null", !.done = TRUE])
                          EXCEPT !.outcome = Settle(@, TimedOut)]
  /\ UNCHANGED <<txCount, watchVars, signVars, nextId, clientVars, diag, second, fee, asked>>

\* a private transaction was sent with some maxBlockNumber (line 816 turns
\* a maxBlockNumber of 0 into a later block); its wait() may be called at
\* any moment
TxInit ==
  /\ waitArgs = [w \in Waits |-> WaitArgsOf(<<>>, 1)]
  /\ head = 0
  /\ blocks = <<>>
  /\ txCount = [a \in Accounts |-> 0]
  /\ WatcherInit
  /\ SignerIdle
  /\ ClientIdle
  /\ DiagIdle
  /\ second = [signState |-> "idle"]
  /\ fee = [pc |-> "idle"]
  /\ asked = [w \in Waits |-> {}]
  /\ \E maxBlockNumber \in Blocks : txWait = TxWaitCall(maxBlockNumber)

TxNext ==
  \/ TxStartWait
  \/ TxEmitBlock
  \/ TxTimerFires
  \/ \E b \in TxBlocks :
       \/ TxHandlerThrows(b)
       \/ \E confirmed \in BOOLEAN : TxReceiptAnswers(b, confirmed)

TxSpec == TxInit /\ [][TxNext]_vars

\* ------------------------------------------------------------------------
\* A submission from sendRawBundle to the end of its waits
\* ------------------------------------------------------------------------
\* the bundle sendRawBundle is called with
SubmittedBundle == <<Serialize("a1", 1, "d")>>

\* sendRawBundle is about to be called with a bundle of one transaction for
\* some target block; nothing has been registered
LifeInit ==
  /\ \E n \in Blocks : waitArgs = [w \in Waits |-> WaitArgsOf(SubmittedBundle, n)]
  /\ ChainInit
  /\ WatcherInit
  /\ bundledTransactions = <<>>
  /\ signState = "direct"
  /\ position = 1
  /\ nonces = <<>>
  /\ signedTransactions = SubmittedBundle
  /\ countFetches = [a \in Accounts |-> 0]
  /\ sendState = "idle"
  /\ relayLog = <<>>
  /\ bundleResponse = [error |-> "none"]
  /\ nextId = 1
  /\ ClientIdle
  /\ DiagIdle
  /\ AsideIdle

\* line 705: wait() of the returned submission is called; it may be called
\* more than once, each call a watch of its own
WaitOfSubmission(w) ==
  /\ sendState = "sent"
  /\ waitArgs[w] = [transactionAccountNonces |-> bundleResponse.bundleTransactions,
                    targetBlockNumber |-> bundleResponse.targetBlockNumber]
  /\ StartWait(w)

LifeNext ==
  \/ MineBlock
  \/ EmitBlock
  \/ SendRawBundle(waitArgs["w1"].targetBlockNumber)
  \/ RelayRejects
  \/ RelayAccepts
  \/ \E w \in Waits :
       \/ WaitOfSubmission(w)
       \/ TimerFires(w)
       \/ \E b \in Blocks :
            \/ HandlerThrows(w, b)
            \/ HandlerNonces(w, b)
            \/ HandlerBlock(w, b)

LifeSpec == LifeInit /\ [][LifeNext]_vars

\* ------------------------------------------------------------------------
\* getConflictingBundleWithoutGasPricing
\* ------------------------------------------------------------------------
\* FlashbotsBundleConflictType
NoConflict == "NoConflict"
NonceCollision == "NonceCollision"
ConflictError == "Error"
CoinbasePayment == "CoinbasePayment"
GasUsed == "GasUsed"
NoBundlesInBlock == "NoBundlesInBlock"

\* the simulation of one transaction: whether it has the members `error`
\* and `revert`, and its ethSentToCoinbase and gasUsed
TxSim(error, revert, ethSentToCoinbase, gasUsed) ==
  [error |-> error, revert |-> revert, ethSentToCoinbase |-> ethSentToCoinbase,
   gasUsed |-> gasUsed, coinbaseDiff |-> ethSentToCoinbase + gasUsed]

TxSims ==
  {TxSim(FALSE, FALSE, e, g) : e \in 0..1, g \in 1..2}
    \cup {TxSim(TRUE, FALSE, 0, 1), TxSim(FALSE, TRUE, 0, 1)}

\* the simulation of a transaction of a competing bundle
PriorSim == TxSim(FALSE, FALSE, 0, 1)

\* line 1199: results.find('revert' in txSim || 'error' in txSim); <<>> is
\* undefined
FirstRevert(results) ==
  LET hits == {j \in 1..Len(results) : results[j].revert \/ results[j].error}
  IN IF hits = {} THEN <<>>
     ELSE <<results[CHOOSE j \in hits : \A h \in hits : j <= h]>>

\* the messages of the relay's simulation errors, as prefix and rest
NonceTooLowMessage == <<"err: nonce too low:", "rest">>
OtherMessage == <<"err: other:", "rest">>

\* message.startsWith('err: nonce too low:')
StartsWithNonceTooLow(message) == message[1] = "err: nonce too low:"

\* what simulate returns: an error record, or the results with firstRevert
SimError(message) == [error |-> [message |-> message, code |-> -32000]]
SimResults(results) == [results |-> results, firstRevert |-> FirstRevert(results)]
HasError(simulation) == "error" \in DOMAIN simulation

\* results.slice(-n)
SliceLast(results, n) ==
  IF n = 0 THEN results
  ELSE SubSeq(results, IF Len(results) > n THEN Len(results) - n + 1 ELSE 1, Len(results))

\* the entries the blocks index lists for a block: hash, bundle_index and
\* the amounts the pricing reads
BlockTx(i, bundle_index) ==
  [transaction_hash |-> <<"hash", i>>, bundle_index |-> bundle_index,
   gas_used |-> i, coinbase_transfer |-> 1, total_miner_reward |-> 1 + i]

\* the lists of up to n entries; the index lists the bundles of a block in
\* their order, which line 1304 relies on to count them
RECURSIVE BlockTxLists(_)
BlockTxLists(n) ==
  IF n = 0 THEN {<<>>}
  ELSE LET shorter == BlockTxLists(n - 1)
       IN shorter \cup {Append(l, BlockTx(n, b)) :
                          l \in {t \in shorter : Len(t) = n - 1},
                          b \in 0..(MaxBlockTxs - 1)}

\* the bundle_index of the entries never decreases along the list
InBundleOrder(txs) ==
  \A i \in 1..(Len(txs) - 1) : txs[i].bundle_index <= txs[i + 1].bundle_index

\* the index numbers the bundles of a block from 0 on, and a bundle has at
\* least one transaction: no number up to the highest is without an entry
NumberedFromZero(txs) ==
  \A k \in 0..(MaxBlockTxs - 1) :
    (\E i \in 1..Len(txs) : txs[i].bundle_index > k)
      => \E i \in 1..Len(txs) : txs[i].bundle_index = k

\* the answers of fetchBlocksApi: the block is not indexed yet, it has no
\* bundles, or it lists the transactions of its bundles
BlocksApiResponses(targetBlockNumber) ==
  {[latest_block_number |-> l, blocks |-> bs] :
     l \in {targetBlockNumber, targetBlockNumber + 1},
     bs \in {<<>>} \cup {<<[transactions |-> txs]>> :
                          txs \in {l \in BlockTxLists(MaxBlockTxs) \ {<<>>} :
                                    InBundleOrder(l) /\ NumberedFromZero(l)}}}

\* the bundles a caller may have diagnosed
TargetBundles ==
  {[i \in 1..n |-> Serialize("a1", i - 1, "d")] : n \in 1..MaxTargetLen}

\* lines 1311-1316: the raw transaction rebuilt from getTransaction's answer
Serialized(transaction_hash) == <<"raw", transaction_hash>>

\* array.filter(f), in order
RECURSIVE FilterByBundle(_, _)
FilterByBundle(txs, id) ==
  IF txs = <<>> THEN <<>>
  ELSE LET rest == FilterByBundle(Tail(txs), id)
       IN IF Head(txs).bundle_index = id THEN <<Head(txs)>> \o rest ELSE rest

\* the parameters of a simulate call
SimCall(txs, blockNumber, stateBlockNumber) ==
  [txs |-> txs, blockNumber |-> blockNumber, stateBlockNumber |-> stateBlockNumber]

\* the record getConflictingBundleWithoutGasPricing returns
ConflictRecord(conflictType, initialSimulation, conflictingBundle) ==
  [conflictType |-> conflictType, initialSimulation |-> initialSimulation,
   conflictingBundle |-> conflictingBundle]

\* a call of getConflictingBundleWithoutGasPricing that has not started;
\* result is what it returns, priced what getConflictingBundle returns
DiagCall(targetSignedBundledTransactions, targetBlockNumber) ==
  [pc |-> "idle",
   targetSignedBundledTransactions |-> targetSignedBundledTransactions,
   targetBlockNumber |-> targetBlockNumber,
   initialSimulation |-> [pending |-> TRUE],
   competingBundles |-> [latest_block_number |-> 0, blocks |-> <<>>],
   currentBundleId |-> 0,
   signedPriorBundleTransactions |-> <<>>,
   competitorAndTargetBundleSimulation |-> [pending |-> TRUE],
   replays |-> <<>>,
   simCalls |-> <<>>,
   fetched |-> <<>>,
   result |-> [conflictType |-> "none"],
   fault |-> "none",
   withPricing |-> FALSE,
   baseFee |-> 0,
   priced |-> [conflictType |-> "none"]]

\* a call of getConflictingBundle that has not started
PricedDiagCall(targetSignedBundledTransactions, targetBlockNumber) ==
  [DiagCall(targetSignedBundledTransactions, targetBlockNumber) EXCEPT !.withPricing = TRUE]

\* lines 1303-1304
bundleTransactions(d) == d.competingBundles.blocks[1].transactions

\* variant: the bundles are counted from the first entry
bundleCountOfFirst(d) == bundleTransactions(d)[1].bundle_index + 1

bundleCount(d) == bundleTransactions(d)[Len(bundleTransactions(d))].bundle_index + 1

\* line 1307
currentBundleTransactions(d) == FilterByBundle(bundleTransactions(d), d.currentBundleId)

DiagThrows(d, fault) == [d EXCEPT !.pc = "threw", !.fault = fault]
DiagReturns(d, conflictType, conflictingBundle) ==
  [d EXCEPT !.pc = "returned",
            !.result = ConflictRecord(conflictType, d.initialSimulation, conflictingBundle)]

\* variant: the loop is left one bundle early
LoopHeadStopsEarly(d, id) ==
  IF id < bundleCount(d) - 1
  THEN LET current == FilterByBundle(bundleTransactions(d), id)
       IN [d EXCEPT !.pc = "awaitTxs", !.currentBundleId = id,
                    !.fetched = @ \o [i \in 1..Len(current) |-> current[i].transaction_hash]]
  ELSE DiagReturns(d, NoConflict, <<>>)

\* lines 1306-1310 and 1368-1372: the loop test with currentBundleId = id;
\* the transactions of that bundle are asked for, or the loop is left
LoopHead(d, id) ==
  IF id < bundleCount(d)
  THEN LET current == FilterByBundle(bundleTransactions(d), id)
       IN [d EXCEPT !.pc = "awaitTxs", !.currentBundleId = id,
                    !.fetched = @ \o [i \in 1..Len(current) |-> current[i].transaction_hash]]
  ELSE DiagReturns(d, NoConflict, <<>>)

\* variant: the gas used is compared before the value sent to the proposer
RECURSIVE FirstDifferenceGasFirst(_, _, _)
FirstDifferenceGasFirst(targetSimulation, initialResults, j) ==
  IF j > Len(targetSimulation) THEN "none"
  ELSE LET targetSimulationTx == targetSimulation[j]
           initialSimulationTx == initialResults[j]
       IN IF targetSimulationTx.error \/ initialSimulationTx.error
          THEN IF targetSimulationTx.error # initialSimulationTx.error
               THEN ConflictError
               ELSE FirstDifferenceGasFirst(targetSimulation, initialResults, j + 1)
          ELSE IF targetSimulationTx.gasUsed # initialSimulationTx.gasUsed
               THEN GasUsed
          ELSE IF targetSimulationTx.ethSentToCoinbase # initialSimulationTx.ethSentToCoinbase
               THEN CoinbasePayment
          ELSE FirstDifferenceGasFirst(targetSimulation, initialResults, j + 1)

\* lines 1339-1366: the first difference between the replayed target
\* transactions and the baseline, from index j on; "none" if there is none
RECURSIVE FirstDifference(_, _, _)
FirstDifference(targetSimulation, initialResults, j) ==
  IF j > Len(targetSimulation) THEN "none"
  ELSE LET targetSimulationTx == targetSimulation[j]
           initialSimulationTx == initialResults[j]
       IN IF targetSimulationTx.error \/ initialSimulationTx.error
          THEN IF targetSimulationTx.error # initialSimulationTx.error
               THEN ConflictError
               ELSE FirstDifference(targetSimulation, initialResults, j + 1)
          ELSE IF targetSimulationTx.ethSentToCoinbase # initialSimulationTx.ethSentToCoinbase
               THEN CoinbasePayment
          ELSE IF targetSimulationTx.gasUsed # initialSimulationTx.gasUsed
               THEN GasUsed
          ELSE FirstDifference(targetSimulation, initialResults, j + 1)

\* BigInt division: the quotient is truncated toward zero
TruncDiv(a, b) ==
  IF (a >= 0) = (b > 0) THEN (IF a >= 0 THEN a ELSE -a) \div (IF b > 0 THEN b ELSE -b)
  ELSE -((IF a >= 0 THEN a ELSE -a) \div (IF b > 0 THEN b ELSE -b))

\* lines 1205-1225: the sums over the transactions, from entry j on
RECURSIVE SumPricing(_, _, _)
SumPricing(txs, baseFee, j) ==
  IF j > Len(txs)
  THEN [gasUsed |-> 0, gasFeesPaidBySearcher |-> 0, priorityFeesReceivedByMiner |-> 0,
        ethSentToCoinbase |-> 0]
  ELSE LET transactionDetail == txs[j]
           gasUsed == IF "gas_used" \in DOMAIN transactionDetail
                      THEN transactionDetail.gas_used ELSE transactionDetail.gasUsed
           ethSentToCoinbase ==
             IF "coinbase_transfer" \in DOMAIN transactionDetail
             THEN transactionDetail.coinbase_transfer
             ELSE IF "ethSentToCoinbase" \in DOMAIN transactionDetail
             THEN transactionDetail.ethSentToCoinbase ELSE 0
           totalMinerReward ==
             IF "total_miner_reward" \in DOMAIN transactionDetail
             THEN transactionDetail.total_miner_reward
             ELSE IF "coinbaseDiff" \in DOMAIN transactionDetail
             THEN transactionDetail.coinbaseDiff ELSE 0
           priorityFeeReceivedByMiner == totalMinerReward - ethSentToCoinbase
           acc == SumPricing(txs, baseFee, j + 1)
       IN [gasUsed |-> acc.gasUsed + gasUsed,
           gasFeesPaidBySearcher |->
             acc.gasFeesPaidBySearcher + (baseFee * gasUsed + priorityFeeReceivedByMiner),
           priorityFeesReceivedByMiner |->
             acc.priorityFeesReceivedByMiner + priorityFeeReceivedByMiner,
           ethSentToCoinbase |-> acc.ethSentToCoinbase + ethSentToCoinbase]

\* lines 1203-1249
calculateBundlePricing(txs, baseFee) ==
  LET bundleGasPricing == SumPricing(txs, baseFee, 1)
  IN [gasUsed |-> bundleGasPricing.gasUsed,
      gasFeesPaidBySearcher |-> bundleGasPricing.gasFeesPaidBySearcher,
      priorityFeesReceivedByMiner |-> bundleGasPricing.priorityFeesReceivedByMiner,
      ethSentToCoinbase |-> bundleGasPricing.ethSentToCoinbase,
      txCount |-> Len(txs),
      effectiveGasPriceToSearcher |->
        IF bundleGasPricing.gasUsed > 0
        THEN TruncDiv(bundleGasPricing.ethSentToCoinbase + bundleGasPricing.gasFeesPaidBySearcher,
                      bundleGasPricing.gasUsed)
        ELSE 0,
      effectivePriorityFeeToMiner |->
        IF bundleGasPricing.gasUsed > 0
        THEN TruncDiv(bundleGasPricing.ethSentToCoinbase
                        + bundleGasPricing.priorityFeesReceivedByMiner,
                      bundleGasPricing.gasUsed)
        ELSE 0]

\* variant: a conflict with a bundle that paid a lower price than the
\* target is dropped
PricedRecordByPrice(conflictDetails, baseFee) ==
  LET target == calculateBundlePricing(conflictDetails.initialSimulation.results, baseFee)
      conflicting == calculateBundlePricing(conflictDetails.conflictingBundle, baseFee)
      dropped == /\ conflictDetails.conflictingBundle # <<>>
                 /\ conflicting.effectiveGasPriceToSearcher < target.effectiveGasPriceToSearcher
  IN [conflictType |-> IF dropped THEN NoConflict ELSE conflictDetails.conflictType,
      initialSimulation |-> conflictDetails.initialSimulation,
      conflictingBundle |-> IF dropped THEN <<>> ELSE conflictDetails.conflictingBundle,
      targetBundleGasPricing |-> target,
      conflictingBundleGasPricing |->
        IF conflictDetails.conflictingBundle # <<>> /\ ~dropped THEN <<conflicting>> ELSE <<>>]

\* variant: the conflicting bundle is priced even when it is empty
PricedRecordAlwaysPriced(conflictDetails, baseFee) ==
  [conflictType |-> conflictDetails.conflictType,
   initialSimulation |-> conflictDetails.initialSimulation,
   conflictingBundle |-> conflictDetails.conflictingBundle,
   targetBundleGasPricing |->
     calculateBundlePricing(conflictDetails.initialSimulation.results, baseFee),
   conflictingBundleGasPricing |->
     <<calculateBundlePricing(conflictDetails.conflictingBundle, baseFee)>>]

\* lines 1266-1271: the record getConflictingBundle returns; <<>> is undefined
PricedRecord(conflictDetails, baseFee) ==
  [conflictType |-> conflictDetails.conflictType,
   initialSimulation |-> conflictDetails.initialSimulation,
   conflictingBundle |-> conflictDetails.conflictingBundle,
   targetBundleGasPricing |->
     calculateBundlePricing(conflictDetails.initialSimulation.results, baseFee),
   conflictingBundleGasPricing |->
     IF Len(conflictDetails.conflictingBundle) > 0
     THEN <<calculateBundlePricing(conflictDetails.conflictingBundle, baseFee)>>
     ELSE <<>>]

\* lines 1265-1271: getConflictingBundle goes on with what the diagnosis it
\* awaits ended in: a fault is passed on, a record is priced and returned
Resumed(d) ==
  IF d.withPricing /\ d.pc = "returned"
  THEN [d EXCEPT !.priced = PricedRecord(d.result, d.baseFee)]
  ELSE d

\* lines 1285-1288: the baseline simulation and the blocks index are asked
Entered(d) ==
  [d EXCEPT !.pc = "awaitInitial",
            !.simCalls = <<SimCall(d.targetSignedBundledTransactions, d.targetBlockNumber,
                                   d.targetBlockNumber - 1)>>]

\* getConflictingBundleWithoutGasPricing is called
DiagStart ==
  /\ diag.pc = "idle"
  /\ ~diag.withPricing
  /\ diag' = Entered(diag)
  /\ nextId' = nextId + 1
  /\ UNCHANGED <<txCount, watchVars, signVars, clientVars, asideVars>>

\* line 1262: getConflictingBundle is called and asks for the target block
PricedStart ==
  /\ diag.pc = "idle"
  /\ diag.withPricing
  /\ diag' = [diag EXCEPT !.pc = "awaitBlock"]
  /\ UNCHANGED <<txCount, watchVars, signVars, nextId, clientVars, asideVars>>

\* line 1262: getBlock throws
BlockFails ==
  /\ diag.pc = "awaitBlock"
  /\ diag' = DiagThrows(diag, "collaborator")
  /\ UNCHANGED <<txCount, watchVars, signVars, nextId, clientVars, asideVars>>

\* the answers of getBlock: null, or a block with or without baseFeePerGas
BlockAnswersOf == {[null |-> TRUE], [baseFeePerGas |-> 1], [number |-> 0]}

\* lines 1262-1265: getBlock answers; without a block the call throws, with
\* one the diagnosis is called
BlockAnswers(block) ==
  /\ diag.pc = "awaitBlock"
  /\ IF "null" \in DOMAIN block
     THEN /\ diag' = DiagThrows(diag, "Unable to get block")
          /\ UNCHANGED nextId
     ELSE /\ diag' = Entered([diag EXCEPT !.baseFee = IF "baseFeePerGas" \in DOMAIN block
                                                      THEN block.baseFeePerGas ELSE 0])
          /\ nextId' = nextId + 1
  /\ UNCHANGED <<txCount, watchVars, signVars, clientVars, asideVars>>

\* line 1285: simulate or fetchBlocksApi throws
InitialFails ==
  /\ diag.pc = "awaitInitial"
  /\ diag' = DiagThrows(diag, "collaborator")
  /\ UNCHANGED <<txCount, watchVars, signVars, nextId, clientVars, asideVars>>

\* variant: a relay error of the baseline is let through
BaselineBrokenOnRevert(initialSimulation) ==
  ~HasError(initialSimulation) /\ initialSimulation.firstRevert # <<>>

\* line 1292
BaselineBroken(initialSimulation) ==
  HasError(initialSimulation) \/ initialSimulation.firstRevert # <<>>

\* variant: an empty block is taken into the loop's result
NoBundlesRecordAsNoConflict(d) == DiagReturns(d, NoConflict, <<>>)

\* lines 1297-1301
NoBundlesRecord(d) == DiagReturns(d, NoBundlesInBlock, <<>>)

\* lines 1285-1310: both answers are in; the preconditions are tested, an
\* empty block is reported, or the loop is entered
InitialAnswers(initialSimulation, competingBundles) ==
  /\ diag.pc = "awaitInitial"
  /\ LET d == [diag EXCEPT !.initialSimulation = initialSimulation,
                           !.competingBundles = competingBundles]
     IN diag' = Resumed(
          IF competingBundles.latest_block_number <= diag.targetBlockNumber
          THEN DiagThrows(d, "Blocks-api has not processed target block")
          ELSE IF BaselineBroken(initialSimulation)
          THEN DiagThrows(d, "Target bundle errors at top of block")
          ELSE IF competingBundles.blocks = <<>>
          THEN NoBundlesRecord(d)
          ELSE LoopHead(d, 0))
  /\ UNCHANGED <<txCount, watchVars, signVars, nextId, clientVars, asideVars>>

\* lines 1310-1318: a transaction of the bundle cannot be got
TxsFail ==
  /\ diag.pc = "awaitTxs"
  /\ currentBundleTransactions(diag) # <<>>
  /\ diag' = DiagThrows(diag, "Could not get raw tx")
  /\ UNCHANGED <<txCount, watchVars, signVars, nextId, clientVars, asideVars>>

\* variant: the replay takes the transactions of the current bundle alone
TxsAnswerOnlyCurrent ==
  /\ diag.pc = "awaitTxs"
  /\ LET current == currentBundleTransactions(diag)
         currentBundleSignedTxs == [i \in 1..Len(current) |-> Serialized(current[i].transaction_hash)]
     IN diag' = [diag EXCEPT !.pc = "awaitReplay",
                             !.signedPriorBundleTransactions = currentBundleSignedTxs,
                             !.simCalls = Append(@, SimCall(currentBundleSignedTxs \o diag.targetSignedBundledTransactions,
                                                            diag.targetBlockNumber,
                                                            diag.targetBlockNumber - 1))]
  /\ nextId' = nextId + 1
  /\ UNCHANGED <<txCount, watchVars, signVars, clientVars, asideVars>>

\* lines 1308-1326: the transactions of the bundle are in; they are added to
\* the prefix and the replay is asked for
TxsAnswer ==
  /\ diag.pc = "awaitTxs"
  /\ LET current == currentBundleTransactions(diag)
         currentBundleSignedTxs == [i \in 1..Len(current) |-> Serialized(current[i].transaction_hash)]
         prior == diag.signedPriorBundleTransactions \o currentBundleSignedTxs
     IN diag' = [diag EXCEPT !.pc = "awaitReplay",
                             !.signedPriorBundleTransactions = prior,
                             !.simCalls = Append(@, SimCall(prior \o diag.targetSignedBundledTransactions,
                                                            diag.targetBlockNumber,
                                                            diag.targetBlockNumber - 1))]
  /\ nextId' = nextId + 1
  /\ UNCHANGED <<txCount, watchVars, signVars, clientVars, asideVars>>

\* line 1322: simulate throws
ReplayThrows ==
  /\ diag.pc = "awaitReplay"
  /\ diag' = DiagThrows(diag, "collaborator")
  /\ UNCHANGED <<txCount, watchVars, signVars, nextId, clientVars, asideVars>>

\* variant: the collision is charged to the whole block
CollisionRecordWholeBlock(d) == DiagReturns(d, NonceCollision, bundleTransactions(d))

\* lines 1330-1334
CollisionRecord(d) == DiagReturns(d, NonceCollision, currentBundleTransactions(d))

\* lines 1328-1367: the replay is in
ReplayAnswers(competitorAndTargetBundleSimulation) ==
  /\ diag.pc = "awaitReplay"
  /\ LET d == [diag EXCEPT !.competitorAndTargetBundleSimulation =
                              competitorAndTargetBundleSimulation,
                           !.replays = Append(@, competitorAndTargetBundleSimulation)]
     IN diag' = Resumed(
          IF HasError(competitorAndTargetBundleSimulation)
          THEN IF StartsWithNonceTooLow(competitorAndTargetBundleSimulation.error.message)
               THEN CollisionRecord(d)
               ELSE DiagThrows(d, "Simulation error")
          ELSE LET targetSimulation ==
                      SliceLast(competitorAndTargetBundleSimulation.results,
                                Len(d.targetSignedBundledTransactions))
                   difference == FirstDifference(targetSimulation, d.initialSimulation.results, 1)
               IN IF difference # "none"
                  THEN DiagReturns(d, difference, currentBundleTransactions(d))
                  ELSE LoopHead(d, d.currentBundleId + 1))
  /\ UNCHANGED <<txCount, watchVars, signVars, nextId, clientVars, asideVars>>

\* the simulations the relay may answer for n transactions before the
\* target's
SimulationsOf(priorCount, targetCount) ==
  {SimResults([i \in 1..priorCount |-> PriorSim] \o r) : r \in [1..targetCount -> TxSims]}

\* a call of getConflictingBundleWithoutGasPricing or of getConflictingBundle
\* with any target bundle; the target block number is only compared with the
\* blocks index's latest_block_number, which is drawn relative to it, so the
\* calls are for block 1
DiagInit ==
  /\ waitArgs = [w \in Waits |-> WaitArgsOf(<<>>, 1)]
  /\ head = 0
  /\ blocks = <<>>
  /\ txCount = [a \in Accounts |-> 0]
  /\ WatcherInit
  /\ SignerIdle
  /\ ClientIdle
  /\ diag \in {DiagCall(target, 1) : target \in TargetBundles}
              \cup {PricedDiagCall(target, 1) : target \in TargetBundles}
  /\ AsideIdle

\* the baseline and the blocks index answer, with any answers
InitialAnswered ==
  \E initialSimulation \in {SimError(OtherMessage)}
                             \cup SimulationsOf(0, Len(diag.targetSignedBundledTransactions)),
     competingBundles \in BlocksApiResponses(diag.targetBlockNumber) :
    InitialAnswers(initialSimulation, competingBundles)

\* the replay answers, with any answer
ReplayAnswered ==
  \E simulation \in {SimError(NonceTooLowMessage), SimError(OtherMessage)}
                      \cup SimulationsOf(Len(diag.signedPriorBundleTransactions),
                                         Len(diag.targetSignedBundledTransactions)) :
    ReplayAnswers(simulation)

\* getBlock answers, with any answer
BlockAnswered == \E block \in BlockAnswersOf : BlockAnswers(block)

DiagNext ==
  \/ DiagStart
  \/ PricedStart
  \/ BlockFails
  \/ BlockAnswered
  \/ InitialFails
  \/ InitialAnswered
  \/ TxsFail
  \/ TxsAnswer
  \/ ReplayThrows
  \/ ReplayAnswered

DiagSpec == DiagInit /\ [][DiagNext]_vars

\* ------------------------------------------------------------------------
\* getConflictingBundleWithoutGasPricing on a list in any order
\* ------------------------------------------------------------------------
\* the answers of fetchBlocksApi when nothing is taken for granted about the
\* order of the entries or the numbers of the bundles
BlocksApiResponsesAnyOrder(targetBlockNumber) ==
  {[latest_block_number |-> targetBlockNumber + 1, blocks |-> <<[transactions |-> txs]>>] :
     txs \in BlockTxLists(MaxBlockTxs) \ {<<>>}}

\* the baseline and the blocks index answer, the index with any list
InitialAnsweredAnyOrder ==
  \E initialSimulation \in SimulationsOf(0, Len(diag.targetSignedBundledTransactions)),
     competingBundles \in BlocksApiResponsesAnyOrder(diag.targetBlockNumber) :
    InitialAnswers(initialSimulation, competingBundles)

AnyOrderInit ==
  /\ waitArgs = [w \in Waits |-> WaitArgsOf(<<>>, 1)]
  /\ head = 0
  /\ blocks = <<>>
  /\ txCount = [a \in Accounts |-> 0]
  /\ WatcherInit
  /\ SignerIdle
  /\ ClientIdle
  /\ diag \in {DiagCall(target, 1) : target \in TargetBundles}
  /\ AsideIdle

AnyOrderNext ==
  \/ DiagStart
  \/ InitialFails
  \/ InitialAnsweredAnyOrder
  \/ TxsFail
  \/ TxsAnswer
  \/ ReplayThrows
  \/ ReplayAnswered

AnyOrderSpec == AnyOrderInit /\ [][AnyOrderNext]_vars

\* ------------------------------------------------------------------------
\* getMaxBaseFeeInFutureBlock and getBaseFeeInNextBlock
\* ------------------------------------------------------------------------
\* variant: the step shrinks the fee
MaxBaseFeeStepDown(maxBaseFee) == TruncDiv(maxBaseFee * 1000, 1125) + 1

\* line 611: one turn of the loop
MaxBaseFeeStep(maxBaseFee) == TruncDiv(maxBaseFee * 1125, 1000) + 1

\* lines 608-614
RECURSIVE getMaxBaseFeeInFutureBlock(_, _)
getMaxBaseFeeInFutureBlock(baseFee, blocksInFuture) ==
  IF blocksInFuture <= 0 THEN baseFee
  ELSE MaxBaseFeeStep(getMaxBaseFeeInFutureBlock(baseFee, blocksInFuture - 1))

\* variant: the delta is not divided by the gas target
BaseFeePerGasDeltaWithoutTarget(currentBaseFeePerGas, gasUsedDelta, currentGasTarget) ==
  TruncDiv(currentBaseFeePerGas * gasUsedDelta, BASE_FEE_MAX_CHANGE_DENOMINATOR)

\* lines 629 and 634
BaseFeePerGasDelta(currentBaseFeePerGas, gasUsedDelta, currentGasTarget) ==
  TruncDiv(TruncDiv(currentBaseFeePerGas * gasUsedDelta, currentGasTarget),
           BASE_FEE_MAX_CHANGE_DENOMINATOR)

\* lines 622-638
getBaseFeeInNextBlock(currentBaseFeePerGas, currentGasUsed, currentGasLimit) ==
  LET currentGasTarget == TruncDiv(currentGasLimit, 2)
  IN IF currentGasUsed = currentGasTarget
     THEN currentBaseFeePerGas
     ELSE IF currentGasUsed > currentGasTarget
     THEN currentBaseFeePerGas
            + BaseFeePerGasDelta(currentBaseFeePerGas, currentGasUsed - currentGasTarget,
                                 currentGasTarget)
     ELSE currentBaseFeePerGas
            - BaseFeePerGasDelta(currentBaseFeePerGas, currentGasTarget - currentGasUsed,
                                 currentGasTarget)

\* the gas limits of a block, from the least with a gas target above zero
GasLimits == 2..MaxGasLimit

\* a caller holds a base fee and has projected nothing yet but the fee of
\* the block itself
FeeInit ==
  /\ waitArgs = [w \in Waits |-> WaitArgsOf(<<>>, 1)]
  /\ head = 0
  /\ blocks = <<>>
  /\ txCount = [a \in Accounts |-> 0]
  /\ WatcherInit
  /\ SignerIdle
  /\ ClientIdle
  /\ DiagIdle
  /\ second = [signState |-> "idle"]
  /\ asked = [w \in Waits |-> {}]
  /\ txWait = [started |-> FALSE]
  /\ \E baseFee \in 0..MaxBaseFee :
       fee = [pc |-> "projecting",
              baseFee |-> baseFee,
              projected |-> <<getMaxBaseFeeInFutureBlock(baseFee, 0)>>,
              current |-> baseFee,
              last |-> [none |-> TRUE]]

\* one more block: the caller projects the maximum one block further, and
\* the fee of the next block from the gas used and the gas limit of this one
ProjectBlock(currentGasUsed, currentGasLimit) ==
  /\ fee.pc = "projecting"
  /\ Len(fee.projected) <= MaxAhead
  /\ LET result == getBaseFeeInNextBlock(fee.current, currentGasUsed, currentGasLimit)
     IN fee' = [fee EXCEPT
                  !.projected = Append(@, getMaxBaseFeeInFutureBlock(fee.baseFee, Len(@))),
                  !.current = result,
                  !.last = [currentBaseFeePerGas |-> fee.current,
                            currentGasUsed |-> currentGasUsed,
                            currentGasLimit |-> currentGasLimit,
                            result |-> result]]
  /\ UNCHANGED <<txCount, watchVars, signVars, nextId, clientVars, diag, second, asked, txWait>>

FeeNext ==
  \E currentGasLimit \in GasLimits : \E currentGasUsed \in 0..currentGasLimit :
    ProjectBlock(currentGasUsed, currentGasLimit)

FeeSpec == FeeInit /\ [][FeeNext]_vars

\* ------------------------------------------------------------------------
\* Properties of the watcher
\* ------------------------------------------------------------------------
TargetOf(w) == waitArgs[w].targetBlockNumber
BundleOf(w) == waitArgs[w].transactionAccountNonces

\* what block-content matching says about the target block of wait w
MatchOf(w) ==
  IF HashesOf(BundleOf(w)) \subseteq blocks[TargetOf(w)]
  THEN BundleIncluded ELSE BlockPassedWithoutInclusion

\* the least nonce the bundle submits for account a, zero nonces included
LeastNonce(txs, a) ==
  LET ns == {txs[i].nonce : i \in {j \in 1..Len(txs) : txs[j].account = a}}
  IN CHOOSE n \in ns : \A m \in ns : n <= m

\* C1 as claimed: a wait whose handler received the event of target block N
\* ends Included if block N holds every bundle hash and
\* PassedWithoutInclusion if it does not.
C1_Original ==
  \A w \in Waits :
    (inv[w][TargetOf(w)] # "none" /\ outcome[w] # Pending) => outcome[w] = MatchOf(w)

\* C1 as amended: when the invocation for the event of target block N gets
\* block N while the wait is still pending, the wait resolves Included if the
\* block holds every bundle hash and PassedWithoutInclusion otherwise; and a
\* wait resolves to one of these two only as block N says.
C1_ResolvesByTargetBlock ==
  [][\A w \in Waits :
       /\ (inv[w][TargetOf(w)] = "awaitBlock" /\ inv'[w][TargetOf(w)] = "returned"
           /\ outcome[w] = Pending)
          => outcome'[w] = MatchOf(w)
       /\ (outcome[w] = Pending /\ outcome'[w] \in {BundleIncluded, BlockPassedWithoutInclusion})
          => (TargetOf(w) <= head /\ outcome'[w] = MatchOf(w))]_vars

C1_Witness ==
  \E w \in Waits :
    /\ inv[w][TargetOf(w)] = "returned"
    /\ Len(BundleOf(w)) = MaxBundleLen
    /\ outcome[w] = BundleIncluded

\* C2 as claimed: when a handler invocation for a block below the target
\* completes its nonce check before the target block is mined, and the
\* on-chain count of some account of the bundle exceeds the least nonce the
\* bundle submits for it, the pending wait resolves AccountNonceTooHigh.
C2_Claim ==
  [][\A w \in Waits : \A b \in Blocks :
       (/\ inv[w][b] = "awaitCounts" /\ inv'[w][b] = "returned"
        /\ outcome[w] = Pending
        /\ head < TargetOf(w)
        /\ \E a \in AccountsOf(BundleOf(w)) : txCount[a] > LeastNonce(BundleOf(w), a))
       => outcome'[w] = AccountNonceTooHigh]_vars

\* C3: a settled wait has had its listener removed exactly once, and no wait
\* ever has it removed more than once.
C3_RemovedExactlyOnce ==
  \A w \in Waits :
    /\ removeCalls[w] <= 1
    /\ outcome[w] # Pending => removeCalls[w] = 1

\* a wait timed out and an invocation that was in flight resolved afterwards
C3_Witness ==
  \E w \in Waits : \E b \in Blocks :
    /\ b >= TargetOf(w)
    /\ inv[w][b] = "returned"
    /\ outcome[w] = TimedOut
    /\ removeCalls[w] = 1

\* C4: a timer firing on a pending wait rejects it with 'Timed out' and
\* removes its listener; a timed-out wait stays timed out whatever returns
\* later; a resolved wait has its timer cleared and keeps its resolution.
C4_Timeout ==
  [][\A w \in Waits :
       /\ (timeoutState[w] = "scheduled" /\ timeoutState'[w] = "fired" /\ outcome[w] = Pending)
          => (outcome'[w] = TimedOut /\ w \notin listeners')
       /\ outcome[w] = TimedOut => (outcome'[w] = TimedOut /\ w \notin listeners')
       /\ outcome'[w] \in FlashbotsBundleResolution => timeoutState'[w] = "cleared"
       /\ outcome[w] \in FlashbotsBundleResolution => outcome'[w] = outcome[w]
       /\ TimedOut \notin FlashbotsBundleResolution]_vars

\* a wait timed out while an invocation was in flight, which then returned
C4_Witness ==
  \E w \in Waits : \E b \in Blocks :
    /\ outcome[w] = TimedOut
    /\ timeoutState[w] = "fired"
    /\ inv[w][b] = "returned"
    /\ b >= TargetOf(w)
    /\ w \notin listeners

\* C5: once the outcome of a wait is set it never changes.
C5_OutcomeSetOnce ==
  [][\A w \in Waits : outcome[w] # Pending => outcome'[w] = outcome[w]]_vars

\* a wait resolved by its nonce check, and a later invocation's block answer
\* arrived after that
C5_Witness ==
  \E w \in Waits : \E b \in Blocks :
    /\ outcome[w] = AccountNonceTooHigh
    /\ b >= TargetOf(w)
    /\ inv[w][b] = "returned"

\* C6: every started wait eventually is settled with its listener removed,
\* and no settled wait has its listener registered.
C6_EventuallySettled ==
  /\ \A w \in Waits : started[w] ~> (outcome[w] # Pending /\ w \notin listeners)
  /\ [](\A w \in Waits : outcome[w] # Pending => w \notin listeners)

\* a wait that timed out while a chain query had not answered
C6_Witness ==
  \E w \in Waits : \E b \in Blocks :
    /\ outcome[w] = TimedOut
    /\ inv[w][b] \in {"awaitCounts", "awaitBlock"}

\* C7: a step that changes the listener, timer or outcome of one wait leaves
\* those of every other wait as they are.
WaitState(w) ==
  <<started[w], done[w], timer[w], timeoutState[w], outcome[w], w \in listeners, removeCalls[w]>>

C7_WaitsIndependent ==
  [][\A w1, w2 \in Waits :
       (w1 # w2 /\ WaitState(w1)' # WaitState(w1)) => WaitState(w2)' = WaitState(w2)]_vars

\* one wait is settled while another is pending with its listener and timer
C7_Witness ==
  \E w1, w2 \in Waits :
    /\ w1 # w2
    /\ outcome[w1] # Pending
    /\ started[w2] /\ outcome[w2] = Pending
    /\ w2 \in listeners
    /\ timeoutState[w2] = "scheduled"

\* ------------------------------------------------------------------------
\* Properties of signBundle and sendRawBundle
\* ------------------------------------------------------------------------
OutAccount(i) == TransactionFrom(signedTransactions[i]).from
OutNonce(i) == TransactionFrom(signedTransactions[i]).nonce
Payload(raw) == raw[4]

\* item j is to be signed and leaves its nonce undefined
NonceLeftOpen(j) ==
  bundledTransactions[j].kind = "unsigned" /\ bundledTransactions[j].nonce.t = "undefined"

\* C8 as claimed: in the output, two entries of one account carry strictly
\* increasing nonces, unless a pre-signed item of that account stands at or
\* between them.  (Lists with a null nonce are left aside here.)
C8_Original ==
  signState = "returned" =>
    \A i1, i2 \in 1..Len(signedTransactions) :
      (/\ i1 < i2
       /\ OutAccount(i1) = OutAccount(i2)
       /\ \A j \in i1..i2 :
            OutAccount(j) = OutAccount(i1) => bundledTransactions[j].kind = "unsigned"
       /\ \A j \in 1..Len(bundledTransactions) :
            bundledTransactions[j].kind = "unsigned" => bundledTransactions[j].nonce.t # "null")
      => OutNonce(i1) < OutNonce(i2)

\* C8 as amended: two entries of one account carry strictly increasing nonces
\* when every item of that account after the first and up to the second is
\* to be signed and leaves its nonce undefined.
C8_IncreasingWhereAssigned ==
  signState = "returned" =>
    \A i1, i2 \in 1..Len(signedTransactions) :
      (/\ i1 < i2
       /\ OutAccount(i1) = OutAccount(i2)
       /\ \A j \in (i1 + 1)..i2 : OutAccount(j) = OutAccount(i1) => NonceLeftOpen(j))
      => OutNonce(i1) < OutNonce(i2)

\* a pre-signed item followed by an item of the same account without nonce
C8_Witness ==
  /\ signState = "returned"
  /\ \E i1, i2 \in 1..Len(signedTransactions) :
       /\ i1 < i2
       /\ OutAccount(i1) = OutAccount(i2)
       /\ bundledTransactions[i1].kind = "signed"
       /\ OutNonce(i1) > 0
       /\ NonceLeftOpen(i2)

\* C9 as claimed: every iteration follows the stated rule, where an item
\* without a nonce is one whose nonce is undefined or null, and no account is
\* looked up twice.
C9_Claim ==
  [][(signState = "running" /\ position' = position + 1) =>
       LET tx == bundledTransactions[position]
           raw == signedTransactions'[Len(signedTransactions')]
           A == TransactionFrom(raw).from
           used == TransactionFrom(raw).nonce
           tracked == A \in DOMAIN nonces
       IN /\ nonces'[A] = used + 1
          /\ \A a \in Accounts : countFetches'[a] <= 1
          /\ IF tx.kind = "signed" \/ tx.nonce.t = "number"
             THEN /\ countFetches' = countFetches
                  /\ tx.kind = "unsigned" => used = tx.nonce.v
             ELSE /\ used = IF tracked THEN nonces[A] ELSE txCount[A]
                  /\ countFetches' =
                       [countFetches EXCEPT ![A] = IF tracked THEN @ ELSE @ + 1]]_vars

\* C10: the output of signBundle follows the input index by index, with the
\* raw string of a pre-signed item unchanged; every request to the relay
\* carries the signed transactions in that order; so do the entries of the
\* submission.
C10_OrderPreserved ==
  /\ signState \in {"running", "returned"} => Len(signedTransactions) = position - 1
  /\ signState = "returned" => Len(signedTransactions) = Len(bundledTransactions)
  /\ \A i \in 1..(IF signState = "direct" THEN 0 ELSE Len(signedTransactions)) :
       LET tx == bundledTransactions[i]
       IN IF tx.kind = "signed"
          THEN signedTransactions[i] = tx.signedTransaction
          ELSE /\ Payload(signedTransactions[i]) = tx.data
               /\ OutAccount(i) = tx.signer
  /\ \A k \in 1..Len(relayLog) : relayLog[k].txs = signedTransactions
  /\ sendState = "sent" =>
       /\ Len(bundleResponse.bundleTransactions) = Len(signedTransactions)
       /\ \A i \in 1..Len(signedTransactions) :
            bundleResponse.bundleTransactions[i].signedTransaction = signedTransactions[i]

\* a pre-signed and a signed item were submitted and then simulated
C10_Witness ==
  /\ sendState = "sent"
  /\ Len(relayLog) = 2
  /\ Len(signedTransactions) = MaxItems
  /\ \E i, j \in 1..Len(bundledTransactions) :
       bundledTransactions[i].kind = "signed" /\ bundledTransactions[j].kind = "unsigned"

\* an item on which signBundle throws whatever the provider and signer answer
InputError(tx) ==
  IF tx.kind = "signed"
  THEN ~Decodable(tx.signedTransaction) \/ TransactionFrom(tx.signedTransaction).from = "null"
  ELSE tx.nonce.t = "string"

\* C11: signBundle throws at the first item that fails and goes no further;
\* once it has thrown it never returns a list, and sendBundle sends nothing
\* to the relay.
C11_AbortsOnFirstFailure ==
  [][/\ (signState = "running" /\ position <= Len(bundledTransactions)
           /\ InputError(bundledTransactions[position]))
          => (position' = position /\ signState' \in {"running", "threw"})
     /\ signState' = "threw" =>
          /\ position' = position
          /\ position' <= Len(bundledTransactions)
          /\ Len(signedTransactions') = position' - 1
          /\ sendState' = "idle"
          /\ relayLog' = <<>>
          /\ bundleResponse' = [error |-> "none"]
     /\ signState = "threw" => signState' = "threw"]_vars

\* the second item fails after the first was signed
C11_Witness ==
  /\ signState = "threw"
  /\ position = 2
  /\ Len(signedTransactions) = 1
  /\ bundledTransactions[1].kind = "unsigned"

\* the chain-count lookups that the items before index k can have made for
\* account a
LookupsBefore(k, a) ==
  Cardinality({j \in 1..(k - 1) :
                 /\ bundledTransactions[j].kind = "unsigned"
                 /\ bundledTransactions[j].signer = a
                 /\ bundledTransactions[j].nonce.t \in {"undefined", "null"}})

\* the items before index k that were handed to their signer
SignerCallsBefore(k) ==
  Cardinality({j \in 1..(k - 1) : bundledTransactions[j].kind = "unsigned"})

\* C12 as claimed: when an input error is raised, no chain-state query, gas
\* estimation, signing call or relay request has been made.
C12_Original ==
  /\ (signState = "threw" /\ InputError(bundledTransactions[position])) =>
       /\ \A a \in Accounts : countFetches[a] = 0
       /\ SignerCallsBefore(position) = 0
       /\ relayLog = <<>>
  /\ sendState = "threw" => relayLog = <<>>

\* C12 as amended: an input error of signBundle or sendBundle is raised at
\* its item, before any chain-state query or signing call for that item or a
\* later one and before any relay request, the items before it having been
\* processed; sendRawBundle raises it only after the relay has accepted the
\* one eth_sendBundle request.
C12_RaisedAtItem ==
  [][/\ (signState' = "threw" /\ InputError(bundledTransactions'[position'])) =>
          /\ \A a \in Accounts : countFetches'[a] <= LookupsBefore(position, a)
          /\ Len(signedTransactions') = position' - 1
          /\ relayLog' = <<>>
     /\ sendState' = "threw" =>
          /\ signState' = "direct"
          /\ Len(relayLog') = 1
          /\ relayLog'[1].method = "eth_sendBundle"
          /\ \E i \in 1..Len(signedTransactions') : ~Decodable(signedTransactions'[i])
     /\ (sendState = "awaitRelay" /\ sendState' = "sent") =>
          \A i \in 1..Len(signedTransactions) : Decodable(signedTransactions[i])]_vars

\* the first item had its nonce looked up and was signed, the second is an
\* input error
C12_Witness ==
  /\ signState = "threw"
  /\ position = 2
  /\ InputError(bundledTransactions[position])
  /\ \E a \in Accounts : countFetches[a] = 1
  /\ SignerCallsBefore(position) = 1

\* ------------------------------------------------------------------------
\* Properties of the relay client
\* ------------------------------------------------------------------------
\* the HTTP requests of call c that have reached the relay
WireCount(c) == Cardinality({i \in 1..Len(wire) : wire[i].call = c})

\* call c has returned or thrown
Ended(c) == call[c].pc = "done"

\* C13: a relay operation that has ended has returned a success payload,
\* returned an error record, or thrown, and this never changes afterwards;
\* it returned the error record {error: {message, code}} exactly when the
\* response was OK and carried a non-null error; it threw whenever the
\* response was not OK; a watcher runs only for a submission that
\* sendRawBundle returned with accessors, never for an error record.
C13_Outcomes ==
  [][/\ \A c \in Calls :
          /\ Ended(c) => call'[c] = call[c]
          /\ ~Ended(c)' => (call'[c].pc = "idle" \/ call'[c].outcome.kind = "none")
          /\ Ended(c)' =>
               LET o == call'[c].outcome
                   r == call'[c].response
               IN /\ o.kind \in {"success", "errorRecord", "thrown"}
                  /\ o.kind = "errorRecord" <=> (r.status = 200 /\ r.error = "object")
                  /\ r.status \notin {0, 200} => o.kind = "thrown"
                  /\ o.kind = "success" => (r.status = 200 /\ r.error \in {"null", "undefined"})
                  /\ o.kind = "errorRecord" =>
                       /\ DOMAIN o = {"kind", "error"}
                       /\ o.error = [message |-> RelayError.message, code |-> RelayError.code]
     /\ started'["w1"] =>
          \E c \in Calls :
            /\ Ended(c)'
            /\ call'[c].method = "eth_sendBundle"
            /\ call'[c].outcome.kind = "success"]_vars

\* one sendRawBundle returned an error record, another a submission whose
\* watcher was started
C13_Witness ==
  /\ Ended("c1") /\ call["c1"].method = "eth_sendBundle" /\ call["c1"].outcome.kind = "errorRecord"
  /\ Ended("c2") /\ call["c2"].method = "eth_sendBundle" /\ call["c2"].outcome.kind = "success"
  /\ started["w1"]

\* C14: every request the relay receives carries the header made of the
\* auth signer's address and its signature over the hash of the very body of
\* that request, and the call it belongs to has passed its signing step.
C14_EveryRequestSigned ==
  /\ \A i \in 1..Len(wire) :
       /\ wire[i].header = <<AuthSigner, SignMessage(AuthSigner, Id(wire[i].body))>>
       /\ wire[i].body = call[wire[i].call].body
       /\ call[wire[i].call].pc \in {"awaitResponse", "awaitStartBlock", "done"}
  /\ \A c \in Calls :
       call[c].pc \in {"idle", "awaitFirst", "awaitAddress", "awaitSignature"} => WireCount(c) = 0

\* the requests of two calls have reached the relay
C14_Witness ==
  /\ Len(wire) >= 2
  /\ \E i, j \in 1..Len(wire) : wire[i].call # wire[j].call

\* C15: the ids of the prepared requests are 1, 2, 3, ... in the order of
\* preparation, the counter stands one above the last, and the requests on
\* the wire from different calls carry different ids.
C15_IdsIncrease ==
  /\ \A i \in 1..Len(prepared) : prepared[i].id = i
  /\ nextId = Len(prepared) + 1
  /\ \A i, j \in 1..Len(wire) : wire[i].call # wire[j].call => wire[i].body[4] # wire[j].body[4]

\* two operations are in flight and both have prepared their request
C15_Witness ==
  /\ Len(prepared) = 2
  /\ \A c \in Calls : call[c].pc \in {"awaitAddress", "awaitSignature", "awaitResponse"}
  /\ prepared[1].method # prepared[2].method

RateLimited(c) ==
  /\ call[c].pc = "awaitResponse"
  /\ call'[c] # call[c]
  /\ call'[c].response.status = 429

InitialKnown == "pending" \notin DOMAIN diag.initialSimulation

\* the blocks index has not reached beyond the target block
NotIndexed == diag.competingBundles.latest_block_number <= diag.targetBlockNumber

\* the target bundle alone returned a relay error or has a transaction that
\* reverts or errors
SelfBroken ==
  \/ "error" \in DOMAIN diag.initialSimulation
  \/ \E j \in 1..Len(diag.initialSimulation.results) :
       diag.initialSimulation.results[j].revert \/ diag.initialSimulation.results[j].error

\* the transactions the blocks index lists for bundle k, in its order
ListedFor(k) ==
  LET txs == diag.competingBundles.blocks[1].transactions
  IN {txs[i] : i \in {j \in 1..Len(txs) : txs[j].bundle_index = k}}

ElementsOf(seq) == {seq[i] : i \in 1..Len(seq)}

\* C18: when the block is not indexed yet or the target bundle is broken on
\* its own, the diagnosis has thrown, has no record, and has asked for no
\* transaction and no simulation but the baseline.
C18_FailsFast ==
  (InitialKnown /\ (NotIndexed \/ SelfBroken)) =>
    /\ diag.pc = "threw"
    /\ diag.fault = IF NotIndexed THEN "Blocks-api has not processed target block"
                    ELSE "Target bundle errors at top of block"
    /\ diag.result = [conflictType |-> "none"]
    /\ Len(diag.simCalls) = 1
    /\ diag.fetched = <<>>

\* the block has bundles, but a target transaction reverts on its own
C18_Witness ==
  /\ InitialKnown
  /\ ~NotIndexed
  /\ "error" \notin DOMAIN diag.initialSimulation
  /\ \E j \in 1..Len(diag.initialSimulation.results) : diag.initialSimulation.results[j].revert
  /\ diag.competingBundles.blocks # <<>>
  /\ diag.pc = "threw"

\* C19: when the preconditions hold and the block has no bundles, the
\* diagnosis has returned NoBundlesInBlock with no conflicting entries after
\* the baseline simulation alone.
C19_NoBundles ==
  (InitialKnown /\ ~NotIndexed /\ ~SelfBroken /\ diag.competingBundles.blocks = <<>>) =>
    /\ diag.pc = "returned"
    /\ diag.result = ConflictRecord(NoBundlesInBlock, diag.initialSimulation, <<>>)
    /\ diag.simCalls = <<SimCall(diag.targetSignedBundledTransactions, diag.targetBlockNumber,
                                 diag.targetBlockNumber - 1)>>
    /\ diag.fetched = <<>>
    /\ diag.signedPriorBundleTransactions = <<>>

C19_Witness ==
  /\ diag.pc = "returned"
  /\ diag.result.conflictType = NoBundlesInBlock
  /\ diag.competingBundles.latest_block_number > diag.targetBlockNumber

\* the replay of this step answers with a nonce-too-low error
NonceTooLowAnswer ==
  /\ diag.pc = "awaitReplay"
  /\ diag'.pc # "awaitReplay"
  /\ "error" \in DOMAIN diag'.competitorAndTargetBundleSimulation
  /\ diag'.competitorAndTargetBundleSimulation.error.message[1] = "err: nonce too low:"

\* C20: when the replay for bundle k answers with a nonce-too-low error, the
\* diagnosis returns NonceCollision with exactly the listed transactions of
\* bundle k, having simulated the baseline and bundles 0..k and fetched no
\* transaction of a later bundle; once returned, nothing more is done.
C20_NonceCollision ==
  [][/\ NonceTooLowAnswer =>
          LET k == diag.currentBundleId
          IN /\ diag'.pc = "returned"
             /\ diag'.result.conflictType = NonceCollision
             /\ ElementsOf(diag'.result.conflictingBundle) = ListedFor(k)
             /\ Len(diag'.result.conflictingBundle) = Cardinality(ListedFor(k))
             /\ diag'.simCalls = diag.simCalls
             /\ Len(diag'.simCalls) = k + 2
             /\ diag'.fetched = diag.fetched
             /\ \A i \in 1..Len(diag'.fetched) :
                  \E j \in 0..k : \E tx \in ListedFor(j) : tx.transaction_hash = diag'.fetched[i]
     /\ diag.pc = "returned" => diag' = diag]_vars

\* the collision was met at bundle 0 of a block that lists a later bundle
C20_Witness ==
  /\ diag.pc = "returned"
  /\ diag.result.conflictType = NonceCollision
  /\ diag.currentBundleId = 0
  /\ diag.result.conflictingBundle # <<>>
  /\ \E j \in 1..Len(diag.competingBundles.blocks[1].transactions) :
       diag.competingBundles.blocks[1].transactions[j].bundle_index > 0

\* the replay answered without a relay error and with the target
\* transactions as in the baseline: same error status, same value sent to
\* the proposer, same gas used
SameAsBaseline(simulation) ==
  /\ "error" \notin DOMAIN simulation
  /\ LET n == Len(diag.targetSignedBundledTransactions)
         offset == Len(simulation.results) - n
     IN \A j \in 1..n :
          /\ simulation.results[offset + j].error = diag.initialSimulation.results[j].error
          /\ simulation.results[offset + j].ethSentToCoinbase
               = diag.initialSimulation.results[j].ethSentToCoinbase
          /\ simulation.results[offset + j].gasUsed = diag.initialSimulation.results[j].gasUsed

\* the highest bundle index the blocks index lists for the block
LastBundleIndex ==
  LET txs == diag.competingBundles.blocks[1].transactions
  IN CHOOSE k \in {txs[i].bundle_index : i \in 1..Len(txs)} :
       \A i \in 1..Len(txs) : txs[i].bundle_index <= k

InDiagnosis == diag.pc \in {"awaitInitial", "awaitTxs", "awaitReplay"}

\* what getConflictingBundle returned has the classification the diagnosis
\* returned to it
SameClassification ==
  /\ diag.result.conflictType # "none"
  /\ diag.priced.conflictType = diag.result.conflictType
  /\ diag.priced.conflictingBundle = diag.result.conflictingBundle
  /\ diag.priced.initialSimulation = diag.result.initialSimulation

\* C22 as claimed: a call of getConflictingBundle ends as the diagnosis would
\* on the same answers: with its classification, and in a fault only where
\* the diagnosis ends in one.
C22_Original ==
  [][diag.withPricing =>
       /\ diag'.pc = "returned" => SameClassification'
       /\ (diag.pc # "threw" /\ diag'.pc = "threw") => InDiagnosis]_vars

\* C22: a call of getConflictingBundle that reaches the diagnosis ends as the
\* diagnosis ends, in the same fault or with the same conflictType,
\* conflictingBundle and initialSimulation; it ends in a fault of its own
\* only when the target block cannot be got, and then before any request of
\* the diagnosis.
C22_SameClassification ==
  [][diag.withPricing =>
       /\ diag'.pc = "returned" => SameClassification'
       /\ diag'.pc # "returned" => diag'.priced = [conflictType |-> "none"]
       /\ (diag.pc # "threw" /\ diag'.pc = "threw") =>
            \/ InDiagnosis
            \/ /\ diag.pc = "awaitBlock"
               /\ diag'.fault \in {"Unable to get block", "collaborator"}
               /\ diag'.simCalls = <<>>]_vars

\* a priced call returned a conflict with a bundle, with its pricing
C22_Witness ==
  /\ diag.withPricing
  /\ diag.pc = "returned"
  /\ diag.priced.conflictType = CoinbasePayment
  /\ diag.priced.conflictingBundle # <<>>
  /\ diag.priced.conflictingBundleGasPricing # <<>>
  /\ diag.baseFee = 1

\* ------------------------------------------------------------------------
\* Properties of cancelBundles beside a wait
\* ------------------------------------------------------------------------
\* the requests of the cancelBundles call: one envelope prepared, for
\* eth_cancelBundle with the uuid given, and nothing else on the wire; it is
\* on the wire once the signature header is made, and only once when the
\* client was built by create()
OneCancelRequest ==
  LET c == call["c1"]
  IN c.pc # "idle" =>
       /\ Len(prepared) = 1
       /\ prepared[1].method = "eth_cancelBundle"
       /\ prepared[1].params = <<c.arg>>
       /\ \A i \in 1..Len(wire) :
            wire[i].body = <<"json", "eth_cancelBundle", <<c.arg>>, prepared[1].id, "2.0">>
       /\ (c.pc = "awaitResponse" \/ (c.pc = "done" /\ c.outcome # Thrown("auth signer")))
            => Len(wire) >= 1
       /\ retryFunc = "throttleCallback" => Len(wire) <= 1

\* a wait that was started and has not settled has its handler registered
\* and its timer scheduled
PendingWaitKept ==
  (started["w1"] /\ outcome["w1"] = Pending) =>
    ("w1" \in listeners /\ timeoutState["w1"] = "scheduled")

First ==
  [signState |-> signState, bundledTransactions |-> bundledTransactions, position |-> position,
   nonces |-> nonces, signedTransactions |-> signedTransactions]

\* in call c every item to be signed with its nonce left out, of an account
\* no earlier item of the call has, was signed with the chain's count
FirstUseTakesChainCount(c) ==
  \A i \in 1..Len(c.signedTransactions) :
    LET tx == c.bundledTransactions[i]
    IN (/\ tx.kind = "unsigned"
        /\ tx.nonce.t = "undefined"
        /\ \A j \in 1..(i - 1) :
             LET earlier == c.bundledTransactions[j]
             IN IF earlier.kind = "unsigned" THEN earlier.signer # tx.signer
                ELSE TransactionFrom(earlier.signedTransaction).from # tx.signer)
         => TransactionFrom(c.signedTransactions[i]).nonce = txCount[tx.signer]

\* C24: a step of one signBundle call leaves the other call as it is; given
\* the same items on the same chain counts the two calls hold the same
\* nonce map and the same output at the same item; and in each call an
\* account's first nonce comes from the chain, never from the other call.
C24_FreshNonceMap ==
  [][/\ second' # second => UNCHANGED signVars
     /\ ~(UNCHANGED signVars) => second' = second
     /\ (/\ second'.signState # "idle"
         /\ second'.bundledTransactions = bundledTransactions'
         /\ second'.position = position')
          => /\ second'.nonces = nonces'
             /\ second'.signedTransactions = signedTransactions'
     /\ FirstUseTakesChainCount(First')
     /\ second'.signState # "idle" => FirstUseTakesChainCount(second')]_vars

\* both calls returned on the same two items, the second of which goes on
\* from the nonce tracked for the first
C24_Witness ==
  /\ signState = "returned"
  /\ second.signState = "returned"
  /\ second.bundledTransactions = bundledTransactions
  /\ Len(bundledTransactions) = 2
  /\ \A i \in 1..2 : /\ bundledTransactions[i].kind = "unsigned"
                     /\ bundledTransactions[i].signer = "a1"
                     /\ bundledTransactions[i].nonce.t = "undefined"
  /\ txCount["a1"] = 1
  /\ TransactionFrom(second.signedTransactions[2]).nonce = 2

\* ------------------------------------------------------------------------
\* Properties of the accessors of a submission
\* ------------------------------------------------------------------------
\* C25 as claimed: the simulate accessor issues its eth_callBundle request
\* only when the chain head has reached the bundle's target block.
C25_Claim ==
  [][\A i \in 1..Len(relayLog') :
       (i > Len(relayLog) /\ relayLog'[i].method = "eth_callBundle")
         => head >= relayLog'[i].blockNumber]_vars

\* ------------------------------------------------------------------------
\* Properties of the fee projections
\* ------------------------------------------------------------------------
\* C26: the maximum projected no block ahead is the base fee itself, and the
\* maximum never shrinks as the projection looks one block further.
C26_MaxIsMonotone ==
  /\ fee.projected[1] = fee.baseFee
  /\ \A n \in 1..(Len(fee.projected) - 1) : fee.projected[n] <= fee.projected[n + 1]

\* a projection two blocks ahead of a positive base fee
C26_Witness ==
  /\ fee.pc = "projecting"
  /\ fee.baseFee = 8
  /\ Len(fee.projected) = 3
  /\ fee.projected[2] = 10

\* the formula of the fee projector, each division dropping the remainder
FormulaNextBaseFee(b, used, limit) ==
  LET target == limit \div 2
  IN IF used = target THEN b
     ELSE IF used > target THEN b + ((b * (used - target)) \div target) \div 8
     ELSE b - ((b * (target - used)) \div target) \div 8

Eip1559NextBaseFee(b, used, limit) ==
  LET target == limit \div 2
      up == ((b * (used - target)) \div target) \div 8
  IN IF used = target THEN b
     ELSE IF used > target THEN b + (IF up > 1 THEN up ELSE 1)
     ELSE b - ((b * (target - used)) \div target) \div 8

\* C28 as claimed: getBaseFeeInNextBlock returns the base fee of the next
\* block as EIP-1559 defines it.
C28_Claim ==
  "result" \in DOMAIN fee.last =>
    fee.last.result = Eip1559NextBaseFee(fee.last.currentBaseFeePerGas,
                                         fee.last.currentGasUsed, fee.last.currentGasLimit)

\* C29 as claimed: the base fee reached by applying getBaseFeeInNextBlock
\* block after block never exceeds the maximum projected that many blocks
\* ahead.
C29_Claim == fee.current <= fee.projected[Len(fee.projected)]

\* C30: when the invocation for a block event b at or past the target block
\* gets its block while the wait is pending, the block it was given is the
\* target block, not block b: the wait resolves BundleIncluded exactly when
\* every hash of the bundle is among the transactions of the target block,
\* next to whatever else the block holds, and BlockPassedWithoutInclusion
\* otherwise; so too when the first event the wait receives is past the
\* target.  Only events at or past the target ask for the block.
EveryHashInTarget(w) ==
  \A i \in 1..Len(BundleOf(w)) : BundleOf(w)[i].hash \in blocks[TargetOf(w)]

PositiveNonces(w, a) ==
  {BundleOf(w)[i].nonce : i \in {j \in 1..Len(BundleOf(w)) :
                                   BundleOf(w)[j].account = a /\ BundleOf(w)[j].nonce > 0}}

LeastOf(S) == CHOOSE m \in S : \A x \in S : m <= x

\* the accounts of the bundle with an entry of positive nonce
CheckedAccounts(w) == {a \in Accounts : PositiveNonces(w, a) # {}}

Completes(w, b, from) == inv[w][b] = from /\ inv'[w][b] = "returned"

\* C32: a pending wait becomes BundleIncluded or BlockPassedWithoutInclusion
\* only in the step of an invocation for a block event at or past the target,
\* and AccountNonceTooHigh only in the step of one for an event below the
\* target; an invocation for an event below the target that finds every
\* checked nonce at or above the chain's count leaves the wait as it was:
\* pending if it was pending, its handler registered and its timer running.
C32_KindsByBlockPosition ==
  [][\A w \in Waits :
       /\ (outcome[w] = Pending /\ outcome'[w] \in {BundleIncluded, BlockPassedWithoutInclusion})
          => \E b \in Blocks : b >= TargetOf(w) /\ Completes(w, b, "awaitBlock")
       /\ (outcome[w] = Pending /\ outcome'[w] = AccountNonceTooHigh)
          => \E b \in Blocks : b < TargetOf(w) /\ Completes(w, b, "awaitCounts")
       /\ \A b \in Blocks :
            (/\ b < TargetOf(w)
             /\ inv[w][b] # "returned" /\ inv'[w][b] = "returned"
             /\ \A a \in CheckedAccounts(w) : LeastOf(PositiveNonces(w, a)) >= txCount[a])
            => /\ outcome'[w] = outcome[w]
               /\ (w \in listeners') = (w \in listeners)
               /\ timeoutState'[w] = timeoutState[w]
               /\ timer'[w] = timer[w]
               /\ done'[w] = done[w]]_vars

\* an event below the target was handled with the checked nonce still valid,
\* and the wait is pending with its handler registered and its timer running
C32_Witness ==
  \E b \in Blocks :
    /\ b < TargetOf("w1")
    /\ inv["w1"][b] = "returned"
    /\ CheckedAccounts("w1") # {}
    /\ \A a \in CheckedAccounts("w1") : LeastOf(PositiveNonces("w1", a)) >= txCount[a]
    /\ outcome["w1"] = Pending
    /\ "w1" \in listeners
    /\ timeoutState["w1"] = "scheduled"

\* ------------------------------------------------------------------------
\* Properties of the replay loop
\* ------------------------------------------------------------------------
DivergenceTypes == {ConflictError, CoinbasePayment, GasUsed}

\* the j-th target transaction of a replay beside the j-th of the baseline:
\* what kind of difference it shows, "none" if it shows none
TypeAt(simulation, j) ==
  LET n == Len(diag.targetSignedBundledTransactions)
      replayed == simulation.results[Len(simulation.results) - n + j]
      baseline == diag.initialSimulation.results[j]
  IN IF replayed.error # baseline.error THEN ConflictError
     ELSE IF replayed.ethSentToCoinbase # baseline.ethSentToCoinbase THEN CoinbasePayment
     ELSE IF replayed.gasUsed # baseline.gasUsed THEN GasUsed
     ELSE "none"

\* the kind of the first target transaction of a replay that differs
FirstTypeOf(simulation) ==
  LET n == Len(diag.targetSignedBundledTransactions)
      differing == {j \in 1..n : TypeAt(simulation, j) # "none"}
  IN TypeAt(simulation, CHOOSE j \in differing : \A h \in differing : j <= h)

\* the transactions the blocks index lists for bundle k, as a list in the
\* order of the index
RECURSIVE ListedInOrder(_, _)
ListedInOrder(txs, k) ==
  IF txs = <<>> THEN <<>>
  ELSE (IF Head(txs).bundle_index = k THEN <<Head(txs)>> ELSE <<>>) \o ListedInOrder(Tail(txs), k)

RECURSIVE PrefixUpTo(_, _)
PrefixUpTo(txs, k) ==
  IF k < 0 THEN <<>>
  ELSE LET listed == ListedInOrder(txs, k)
       IN PrefixUpTo(txs, k - 1) \o [i \in 1..Len(listed) |-> Serialized(listed[i].transaction_hash)]

\* C34: the first simulation asked for is the baseline, the target bundle
\* alone at the target block on the state of the block before; the replay of
\* iteration k is asked for the raw transactions of the listed bundles 0..k,
\* bundle after bundle, followed by the target bundle as given, at the same
\* block and state; one replay is asked for per bundle index gone through,
\* and none before the one before it has answered.
C34_ReplayPrefix ==
  diag.simCalls # <<>> =>
    /\ diag.simCalls[1] = SimCall(diag.targetSignedBundledTransactions,
                                  diag.targetBlockNumber, diag.targetBlockNumber - 1)
    /\ Len(diag.simCalls) <= 2 + diag.currentBundleId
    /\ diag.pc = "awaitTxs" => Len(diag.simCalls) = 1 + diag.currentBundleId
    /\ diag.pc = "awaitReplay" => Len(diag.simCalls) = 2 + diag.currentBundleId
    /\ Len(diag.simCalls) - 1 - Len(diag.replays) \in {0, 1}
    /\ diag.pc \in {"awaitTxs", "returned"} => Len(diag.simCalls) - 1 = Len(diag.replays)
    /\ \A k \in 0..(Len(diag.simCalls) - 2) :
         diag.simCalls[k + 2]
           = SimCall(PrefixUpTo(diag.competingBundles.blocks[1].transactions, k)
                       \o diag.targetSignedBundledTransactions,
                     diag.targetBlockNumber, diag.targetBlockNumber - 1)

\* the second replay was asked for, of two listed bundles and the target
C34_Witness ==
  /\ Len(diag.simCalls) = 3
  /\ Len(diag.replays) = 1
  /\ Len(diag.simCalls[3].txs) = 2 + Len(diag.targetSignedBundledTransactions)
  /\ diag.simCalls[3].txs[1] # diag.simCalls[3].txs[2]
  /\ diag.simCalls[3].txs[3] = diag.targetSignedBundledTransactions[1]

\* every transaction the index lists for the block, as the prefix holds it
ListedRaw ==
  LET txs == diag.competingBundles.blocks[1].transactions
  IN [i \in 1..Len(txs) |-> Serialized(txs[i].transaction_hash)]

\* how often x stands in seq
CountIn(seq, x) == Cardinality({i \in 1..Len(seq) : seq[i] = x})

\* the prefix holds every listed transaction exactly once, and nothing else
PrefixHoldsAllOnce ==
  /\ Len(diag.signedPriorBundleTransactions) = Len(ListedRaw)
  /\ \A i \in 1..Len(ListedRaw) :
       CountIn(diag.signedPriorBundleTransactions, ListedRaw[i]) = CountIn(ListedRaw, ListedRaw[i])

ReturnedNoConflict == diag.pc = "returned" /\ diag.result.conflictType = NoConflict

\* the last entry of the list is of the highest bundle index listed
LastIsHighest ==
  LET txs == diag.competingBundles.blocks[1].transactions
  IN \A i \in 1..Len(txs) : txs[i].bundle_index <= txs[Len(txs)].bundle_index

\* C35 as claimed: whenever the diagnosis returns NoConflict, the prefix of
\* its last replay holds every transaction listed for the block exactly
\* once, whatever the order of the list.
C35_Claim == ReturnedNoConflict => PrefixHoldsAllOnce

\* C35 as amended: the bundle indexes are gone through from 0 upward, one by
\* one, the prefix holding the listed transactions of the bundles gone
\* through, each once; and whenever the diagnosis returns NoConflict on a
\* list whose last entry is of the highest bundle index, the prefix holds
\* every listed transaction exactly once.
C35_VisitsEveryBundle ==
  /\ diag.pc \in {"awaitTxs", "awaitReplay", "returned"} /\ diag.competingBundles.blocks # <<>>
       => diag.signedPriorBundleTransactions
            = PrefixUpTo(diag.competingBundles.blocks[1].transactions,
                         IF diag.pc = "awaitTxs" THEN diag.currentBundleId - 1
                         ELSE diag.currentBundleId)
  /\ (ReturnedNoConflict /\ LastIsHighest) => PrefixHoldsAllOnce

\* NoConflict was returned on a list of two bundles, both in the prefix
C35_Witness ==
  /\ ReturnedNoConflict
  /\ LastIsHighest
  /\ Len(diag.signedPriorBundleTransactions) = 2
  /\ diag.competingBundles.blocks[1].transactions[1].bundle_index = 0
  /\ diag.competingBundles.blocks[1].transactions[2].bundle_index = 1

\* ------------------------------------------------------------------------
\* Properties of a submission and its waits
\* ------------------------------------------------------------------------
\* C36: at every point between two steps the handler of a wait is registered
\* on 'block' exactly when the wait has been started and is neither resolved
\* nor timed out; and no handler is registered before sendRawBundle has
\* returned the submission and its wait() has been called.
C36_ListenerIffPending ==
  /\ \A w \in Waits : (w \in listeners) <=> (started[w] /\ outcome[w] = Pending)
  /\ sendState # "sent" => listeners = {}
  /\ \A w \in Waits : started[w] => sendState = "sent"

\* two waits of one submission: one resolved by its nonce check with its
\* handler gone, the other started later and pending with its handler
C36_Witness ==
  \E w1, w2 \in Waits :
    /\ outcome[w1] = AccountNonceTooHigh
    /\ w1 \notin listeners
    /\ started[w2]
    /\ outcome[w2] = Pending
    /\ w2 \in listeners
    /\ sendState = "sent"

\* the least positive nonce of some account of the bundle is below the
\* chain's count; the counts only grow, so it stays so
NonceOvertaken(w) ==
  \E a \in CheckedAccounts(w) : LeastOf(PositiveNonces(w, a)) < txCount[a]

\* the invocation for an event below the target is awaiting its counts and
\* will resolve AccountNonceTooHigh when they are answered
EarlierWouldResolve(w, b) ==
  \E e \in Blocks : e < b /\ inv[w][e] = "awaitCounts" /\ NonceOvertaken(w)

\* C37 as claimed: when the invocations for an earlier and for a later event
\* would both resolve, the wait settles with the resolution of the earlier
\* event: the later one does not settle a wait on which an earlier one is
\* still to resolve.
C37_Claim ==
  [][\A w \in Waits : \A b \in Blocks :
       (inv[w][b] # "returned" /\ inv'[w][b] = "returned"
        /\ outcome[w] = Pending /\ outcome'[w] \in FlashbotsBundleResolution)
       => ~EarlierWouldResolve(w, b)]_vars

\* C37 as amended: the invocations of successive events may overlap, and the
\* wait settles with the resolution of the invocation whose chain query is
\* answered first, whichever event it is for; an invocation answered on a
\* settled wait changes nothing.
C37_FirstAnsweredDecides ==
  [][\A w \in Waits : \A b \in Blocks :
       /\ (inv[w][b] = "awaitBlock" /\ inv'[w][b] = "returned" /\ outcome[w] = Pending)
          => outcome'[w] \in {BundleIncluded, BlockPassedWithoutInclusion}
       /\ (inv[w][b] = "awaitCounts" /\ inv'[w][b] = "returned" /\ outcome[w] = Pending
           /\ NonceOvertaken(w))
          => outcome'[w] = AccountNonceTooHigh
       /\ (inv[w][b] # "returned" /\ inv'[w][b] = "returned" /\ outcome[w] # Pending)
          => outcome'[w] = outcome[w]]_vars

\* the invocation for the target block has settled the wait while the one
\* for an earlier event is still awaiting counts that are past the nonce
C37_Witness ==
  \E w \in Waits :
    /\ outcome[w] \in {BundleIncluded, BlockPassedWithoutInclusion}
    /\ inv[w][TargetOf(w)] = "returned"
    /\ EarlierWouldResolve(w, TargetOf(w))

\* ------------------------------------------------------------------------
\* Properties of waitForTxInclusion
\* ------------------------------------------------------------------------
\* C38 as claimed: removeListener is never called more than once, and has
\* been called exactly once when the wait has ended as TransactionIncluded,
\* as TransactionDropped or by the timeout.
C38_Claim ==
  /\ txWait.removeCalls <= 1
  /\ txWait.outcome # Pending => txWait.removeCalls = 1

\* C38 as amended: removeListener has been called exactly once when the wait
\* has ended as TransactionIncluded or by the timeout, and exactly twice,
\* the second time with the handler already removed, when it has ended as
\* TransactionDropped; it is never called on a pending wait, and the handler
\* is registered exactly while the started wait is pending.
C38_RemoveCallsByPath ==
  /\ txWait.outcome \in {TransactionIncluded, TimedOut} => txWait.removeCalls = 1
  /\ txWait.outcome = TransactionDropped => txWait.removeCalls = 2
  /\ txWait.outcome = Pending => txWait.removeCalls = 0
  /\ txWait.listening <=> (txWait.started /\ txWait.outcome = Pending)

\* the wait ended as TransactionDropped by the event past maxBlockNumber,
\* and the invocation of an earlier event returned after that
C38_Witness ==
  /\ txWait.outcome = TransactionDropped
  /\ txWait.removeCalls = 2
  /\ \E b \in TxBlocks : b <= txWait.maxBlockNumber /\ txWait.inv[b] = "returned"
  /\ \E b \in TxBlocks : b > txWait.maxBlockNumber /\ txWait.inv[b] = "returned"

\* ------------------------------------------------------------------------
\* Properties of a failing handler invocation
\* ------------------------------------------------------------------------
\* C39: the step in which a handler invocation fails changes neither the
\* outcome of the wait nor its done flag, its timer or the registration of
\* its handler; and a wait with a failed invocation is settled in the end,
\* by a later block event or by the timeout.
C39_FailureChangesNothing ==
  /\ [][\A w \in Waits : \A b \in Blocks :
          (inv[w][b] # "threw" /\ inv'[w][b] = "threw")
          => /\ outcome'[w] = outcome[w]
             /\ done'[w] = done[w]
             /\ timer'[w] = timer[w]
             /\ timeoutState'[w] = timeoutState[w]
             /\ (w \in listeners') = (w \in listeners)
             /\ removeCalls'[w] = removeCalls[w]]_vars
  /\ \A w \in Waits :
       (\E b \in Blocks : inv[w][b] = "threw") ~> (outcome[w] # Pending /\ w \notin listeners)

\* the invocation for one event failed and the wait was resolved by the
\* invocation for a later event
C39_Witness ==
  \E w \in Waits : \E b, later \in Blocks :
    /\ b < later
    /\ inv[w][b] = "threw"
    /\ inv[w][later] = "returned"
    /\ outcome[w] \in {BundleIncluded, BlockPassedWithoutInclusion}
    /\ timeoutState[w] = "cleared"

\* ------------------------------------------------------------------------
\* Properties of the returned records
\* ------------------------------------------------------------------------
\* the conflict types whose record names no bundle
EmptyHanded == {NoConflict, NoBundlesInBlock}

\* the entries all carry one bundle index
OneBundle(txs) ==
  \A i, j \in 1..Len(txs) : txs[i].bundle_index = txs[j].bundle_index

\* the simulation is the answer to the first simulate call, made for the
\* target bundle alone, and none of its transactions reverted or errored
IsCleanBaseline(simulation) ==
  /\ simulation = diag.initialSimulation
  /\ diag.simCalls[1].txs = diag.targetSignedBundledTransactions
  /\ ~HasError(simulation)
  /\ \A i \in 1..Len(simulation.results) :
       ~simulation.results[i].error /\ ~simulation.results[i].revert

====
